---- MODULE Spec2Model ----
(***************************************************************************)
(* PocolVM: the interpreter core of src/pm/vm.c (pocol_load_program_into_vm,*)
(* pocol_execute_program, pocol_execute_inst, pocol_fetch_operand,         *)
(* pocol_fetch64) as a state machine.                                      *)
(*                                                                         *)
(* A uint64_t is kept as the tuple of its 8 bytes, least significant byte  *)
(* first (the layout memcpy sees on the little-endian hosts the toolchain  *)
(* targets), so that 64-bit wrap-around is exact.  POCOL_MEMORY_SIZE and   *)
(* POCOL_STACK_SIZE are scaled down; every comparison the code makes with  *)
(* them is kept as written.                                                *)
(*                                                                         *)
(* The assembler of src/posm (compiler.c: next, peek, parse_inst,          *)
(* pocol_compile_file; symbol.c: pocol_symfind, pocol_sympush) is a second *)
(* state machine over the same variables: SpecPosm assembles one source    *)
(* text, SpecSym drives the symbol table alone.  A source text is the      *)
(* sequence of its characters and a position in it is a 1-based index.     *)
(* The symbol table is the sequence of its entries with names held by      *)
(* value; the storage behind sym->symbols and SymData.name is taken to be  *)
(* allocated and large enough, and is not modelled.                        *)
(*                                                                         *)
(* SpecReg runs the interpreter on objects with every register operand     *)
(* byte; SpecCodec runs the descriptor macros of vm.h and the 64-bit       *)
(* emitters against pocol_fetch64.  main of pm.c is the action MainReturn. *)
(* SpecArith runs it on objects that add, push and pop in a loop, SpecLoad *)
(* on files of every size class (empty, short, filling the memory, longer  *)
(* than the memory).  SpecLex calls next() and peek(n) of the lexer on     *)
(* their own, in any order, on short texts.                                *)
(***************************************************************************)
EXTENDS Integers, Sequences, FiniteSets, TLC

(*************************** bounds of the model ***************************)
MemorySize == 14   \* scaled POCOL_MEMORY_SIZE (640 * 1000 in vm.h)
StackSize == 2     \* scaled POCOL_STACK_SIZE (1024 in vm.h)
MaxInsts == 2      \* instructions per object file
MaxSteps == 6      \* instructions dispatched per VM
MaxBudget == 2     \* largest finite step budget a caller passes
MaxLines == 3      \* lines of an assembled source text
MaxPushes == 4     \* pocol_sympush calls on one table
MaxPeek == 2       \* largest n of a peek(n) made on its own
MaxDiags == 2      \* diagnostics after which no further peek is made

(**************************** program constants ****************************)
POCOL_MEMORY_SIZE == MemorySize
POCOL_STACK_SIZE == StackSize
HEADER_SIZE == 24          \* sizeof(PocolHeader): u32, u32, u64, u64
POCOL_VERSION == 1

ERR_OK == 0
ERR_ILLEGAL_INST == 1
ERR_ILLEGAL_INST_ACCESS == 2
ERR_STACK_OVERFLOW == 3
ERR_STACK_UNDERFLOW == 4

OPR_NONE == 0
OPR_REG == 1
OPR_IMM == 2

INST_HALT == 0
INST_PUSH == 1
INST_POP == 2
INST_ADD == 3
INST_JMP == 4
INST_PRINT == 5
INST_SYS == 6
COUNT_INST == 7

Byte == 0..255
NoErr == ERR_STACK_UNDERFLOW + 1   \* outside Err: no value yet (err, result, exit_status)

(******************************* 64-bit words ******************************)
Zero64 == <<0, 0, 0, 0, 0, 0, 0, 0>>
Ones64 == <<255, 255, 255, 255, 255, 255, 255, 255>>

\* the uint64_t whose value is n, for 0 <= n < 2^24
U64(n) == <<n % 256, (n \div 256) % 256, (n \div 65536) % 256, 0, 0, 0, 0, 0>>

\* w < 2^24, so that its value is a number TLC can hold
IsSmall(w) == \A i \in 4..8 : w[i] = 0
Num(w) == w[1] + 256 * w[2] + 65536 * w[3]

\* uint64_t comparison  w >= n  for a small n
GeU64(w, n) == ~IsSmall(w) \/ Num(w) >= n

RECURSIVE Carry(_, _, _)
Carry(a, b, i) == IF i = 0 THEN 0 ELSE (a[i] + b[i] + Carry(a, b, i - 1)) \div 256

\* an addition that drops the carry between bytes
Add64_NoCarry(a, b) == [i \in 1..8 |-> (a[i] + b[i]) % 256]

\* uint64_t addition: *dest += src wraps modulo 2^64
Add64(a, b) == [i \in 1..8 |-> (a[i] + b[i] + Carry(a, b, i - 1)) % 256]

(******************************** decoding *********************************)
\* x | y on non-negative ints
RECURSIVE BitOr(_, _)
BitOr(x, y) ==
    IF x = 0 THEN y
    ELSE IF y = 0 THEN x
    ELSE (IF x % 2 = 1 \/ y % 2 = 1 THEN 1 ELSE 0) + 2 * BitOr(x \div 2, y \div 2)

\* a descriptor with the fields of op1 packed two bits apart
DESC_PACK_Shift2(op1, op2) == BitOr(op2 * 4, op1)

DESC_PACK(op1, op2) == BitOr(op2 * 16, op1)
DESC_GET_OP1(desc) == desc % 16
DESC_GET_OP2(desc) == desc \div 16
\* a mask of two bits for the register index
REG_OP_Mask3(operand) == operand % 4

REG_OP(operand) == operand % 8


(********************************* state ***********************************)
VARIABLES
    mode,        \* "start" | "loadfail" | "crashed" | "idle" | "running" | "exited"
                 \* | "returned"
    file,        \* bytes of the object file at program_path, <<>> before the load
    memory,      \* vm->memory : 0..POCOL_MEMORY_SIZE-1 -> Byte
    pc,          \* vm->pc (Inst_Addr, uint64_t)
    stack,       \* vm->stack : 0..POCOL_STACK_SIZE-1 -> uint64_t
    sp,          \* vm->sp
    registers,   \* vm->registers : 0..7 -> uint64_t
    halt,        \* vm->halt
    syscall_ctx, \* vm->syscall_ctx != NULL
    limit,       \* the local `limit` of the running pocol_execute_program
    budget,      \* the limit argument of the current / last call
    dispatched,  \* pocol_execute_inst calls made by the current / last call
    nsteps,      \* pocol_execute_inst calls made on this VM
    err,         \* value of the last pocol_execute_inst (raised, if it exited)
    result,      \* value returned by the last pocol_execute_program
    exit_status, \* exit status of the process: passed to exit(), returned by main
    last,        \* the last dispatched instruction and the state it started in
    oob,         \* some step read vm->memory at an index >= POCOL_MEMORY_SIZE
    stack_idx,   \* index of the last vm->stack access, -1 before the first
    reg_acc,     \* indices of vm->registers the last step of the call accessed
    stdout,      \* values written by printf, oldest first
    \* posm, the assembler (src/posm)
    posm,        \* "start" | "compiling" | "returned" | "crashed"
    source,      \* the mapped source text, one character per element
    cursor,      \* offset of the lexer's cursor in source, NULL when cleared
    line,        \* lexer line
    col,         \* lexer column
    error_count, \* diagnostics reported so far
    symbols,     \* the symbol table, oldest entry first
    lookahead,   \* p.lookahead
    out,         \* bytes written to p.out, the temporary output file
    tempfile,    \* the temporary output file exists
    outfile,     \* bytes of the file at the output path, NoFile if there is none
    outprev,     \* what the output path held when pocol_compile_file was called
    compile_ret, \* value returned by pocol_compile_file
    stderr,      \* diagnostics printed by compiler_error, oldest first
    refs,        \* identifier operands emitted: name and offset in out
    sym_ret,     \* value returned by the last pocol_sympush
    sym_arg,     \* the SymData passed to the last pocol_sympush
    sym_calls,   \* pocol_sympush calls made
    lexed,       \* the last call of next or peek made on its own, and its token
    \* the codecs run on their own: descriptor packing, 64-bit values
    codec,       \* "start" | "packed" | "written" | "placed" | "fetched" | "exited"
    packing,     \* the operand kinds packed, the descriptor, the kinds unpacked
    v64,         \* the uint64_t given to pocol_write64, as four 16-bit limbs
    fetched64    \* the bytes pocol_fetch64 returned, as the host holds them

vmvars == <<memory, pc, stack, sp, registers, halt>>
pmvars == <<mode, file, memory, pc, stack, sp, registers, halt, syscall_ctx, limit,
            budget, dispatched, nsteps, err, result, exit_status, last, oob, stack_idx,
            reg_acc, stdout>>
lexvars == <<source, cursor, line, col, error_count, stderr>>
posmvars == <<posm, source, cursor, line, col, error_count, symbols, lookahead, out,
              tempfile, outfile, outprev, compile_ret, stderr, refs, sym_ret, sym_arg,
              sym_calls, lexed>>
codecvars == <<codec, packing, v64, fetched64>>
vars == <<pmvars, posmvars, codecvars>>

NoInst == [op |-> -1, desc |-> -1, pc |-> -1, sp |-> -1]

(****************************** object files *******************************)
POCOL_MAGIC == <<112, 111, 99, 111>>     \* 0x6f636f70, least significant byte first
BadMagic == <<112, 111, 99, 112>>
U32(n) == <<n % 256, (n \div 256) % 256, (n \div 65536) % 256, 0>>

\* header fields in file order: magic u32, version u32, entry_point u64, code_size u64
HeaderBytes(magic, version, entry_point, code_size) ==
    magic \o U32(version) \o entry_point \o code_size

SubBytes(f, from, n) == [i \in 1..n |-> f[from + i - 1]]
header_magic(f) == SubBytes(f, 1, 4)
header_version(f) == SubBytes(f, 5, 4)
header_entry_point(f) == SubBytes(f, 9, 8)
header_code_size(f) == SubBytes(f, 17, 8)

Zeros(n) == [i \in 1..n |-> 0]

\* encoded instructions the object files are built from
Pool ==
    { <<INST_HALT, DESC_PACK(OPR_NONE, OPR_NONE)>>,
      <<INST_HALT, DESC_PACK(OPR_REG, OPR_NONE)>>,
      <<INST_PUSH, DESC_PACK(OPR_NONE, OPR_NONE)>>,
      <<INST_PUSH, DESC_PACK(OPR_REG, OPR_NONE), 9>>,
      <<INST_PUSH, DESC_PACK(OPR_IMM, OPR_NONE)>> \o U64(7),
      <<INST_POP, DESC_PACK(OPR_REG, OPR_NONE), 1>>,
      <<INST_POP, DESC_PACK(OPR_IMM, OPR_NONE), 2>>,
      <<INST_ADD, DESC_PACK(OPR_REG, OPR_REG), 1, 1>>,
      <<INST_ADD, DESC_PACK(OPR_REG, OPR_IMM), 1>> \o Ones64,
      <<INST_JMP, DESC_PACK(OPR_IMM, OPR_NONE)>> \o Zero64,
      <<INST_JMP, DESC_PACK(OPR_REG, OPR_NONE), 1>>,
      <<INST_PRINT, DESC_PACK(OPR_REG, OPR_NONE), 1>>,
      <<INST_SYS, DESC_PACK(OPR_NONE, OPR_NONE)>>,
      <<COUNT_INST, DESC_PACK(OPR_NONE, OPR_NONE)>>,
      <<255, DESC_PACK(OPR_REG, OPR_NONE), 1>> }

RECURSIVE CodeOf(_)
CodeOf(n) == IF n = 0 THEN {<<>>}
             ELSE CodeOf(n - 1) \cup {c \o i : c \in CodeOf(n - 1), i \in Pool}

\* code sections of at most MaxInsts instructions that fit the memory
Programs == {c \in CodeOf(MaxInsts) : Len(c) <= POCOL_MEMORY_SIZE}

\* code sections whose last instruction ends where the memory ends (or one
\* byte short of it), entered at that instruction
Tails ==
    { <<INST_HALT>>, <<INST_PUSH>>, <<INST_POP>>, <<COUNT_INST>>,
      <<INST_HALT, 0>>, <<INST_PUSH, OPR_REG>>, <<INST_PUSH, OPR_IMM>>,
      <<INST_ADD, DESC_PACK(OPR_REG, OPR_REG)>>,
      <<INST_ADD, DESC_PACK(OPR_REG, OPR_IMM), 1>>,
      <<INST_JMP, OPR_IMM>>, <<INST_PRINT, OPR_REG>>,
      <<INST_PUSH, OPR_IMM>> \o U64(5),
      <<INST_PUSH, OPR_IMM>> \o U64(5) \o <<0>>,
      <<INST_JMP, OPR_IMM>> \o U64(POCOL_MEMORY_SIZE - 1) \o <<0, INST_PUSH>>,
      <<INST_JMP, OPR_IMM>> \o U64(POCOL_MEMORY_SIZE) \o <<0>> }

GoodFile(code, entry) ==
    HeaderBytes(POCOL_MAGIC, POCOL_VERSION, entry, U64(Len(code))) \o code

Files ==
    {GoodFile(c, Zero64) : c \in Programs}
    \cup {GoodFile(Zeros(POCOL_MEMORY_SIZE - Len(t)) \o t,
                   U64(POCOL_MEMORY_SIZE - Len(t))) : t \in Tails}
    \cup {GoodFile(<<INST_PUSH, 0>>, e) :
            e \in {U64(POCOL_MEMORY_SIZE), Ones64, U64(2)}}
    \cup { HeaderBytes(BadMagic, POCOL_VERSION, Zero64, U64(2)) \o <<INST_HALT, 0>>,
           HeaderBytes(POCOL_MAGIC, POCOL_VERSION + 1, Zero64, U64(2)) \o <<INST_HALT, 0>>,
           HeaderBytes(POCOL_MAGIC, POCOL_VERSION, Zero64, U64(POCOL_MEMORY_SIZE + 1))
               \o <<INST_HALT, 0>>,
           SubBytes(HeaderBytes(POCOL_MAGIC, POCOL_VERSION, Zero64, Zero64), 1,
                    HEADER_SIZE - 1) }


(********************************* loader **********************************)
\* memory after memset and fread(vm->memory, 1, st.st_size, fp): the stream
\* stands right after the header that fread(&header, ...) consumed
LoadedMemory(f) ==
    [i \in 0..(POCOL_MEMORY_SIZE - 1) |->
        IF i < Len(f) - HEADER_SIZE THEN f[HEADER_SIZE + i + 1] ELSE 0]

\* the checks of pocol_load_program_into_vm that end in `goto error`
LoadRejects(f) ==
    \/ Len(f) < HEADER_SIZE
    \/ header_magic(f) # POCOL_MAGIC
    \/ header_version(f) # U32(POCOL_VERSION)
    \/ GeU64(header_code_size(f), POCOL_MEMORY_SIZE + 1)

\* The error path calls pocol_free_vm(*vm) with *vm still NULL (pm.c passes
\* the address of a NULL pointer): reading vm->jit_context through NULL is
\* undefined, so the process either dies there or goes on to return -1.
LoadErrorOutcomes == {"crashed", "loadfail"}

\* a loader that leaves pc at the start of memory
LoadedVM_PcZero(f) ==
    [memory |-> LoadedMemory(f), pc |-> Zero64, sp |-> 0, halt |-> FALSE,
     stack |-> [i \in 0..(POCOL_STACK_SIZE - 1) |-> Zero64],
     registers |-> [i \in 0..7 |-> Zero64]]

\* the VM after memset(*vm, 0, sizeof(**vm)), the fread and the initial values
LoadedVM(f) ==
    [memory |-> LoadedMemory(f), pc |-> header_entry_point(f), sp |-> 0,
     halt |-> FALSE,
     stack |-> [i \in 0..(POCOL_STACK_SIZE - 1) |-> Zero64],
     registers |-> [i \in 0..7 |-> Zero64]]

\* the bytes fread(vm->memory, 1, st.st_size, fp) stores past the end of
\* vm->memory: the rest of the stream is read whatever its length
Overrun(f) ==
    IF Len(f) - HEADER_SIZE > POCOL_MEMORY_SIZE
    THEN SubBytes(f, HEADER_SIZE + POCOL_MEMORY_SIZE + 1,
                  Len(f) - HEADER_SIZE - POCOL_MEMORY_SIZE)
    ELSE <<>>

\* the stack when the overrun runs through pc (8 bytes, set again after the
\* fread) into the slots that follow it in PocolVM
OverrunStack(f) ==
    [i \in 0..(POCOL_STACK_SIZE - 1) |->
        [k \in 1..8 |-> IF 8 + 8 * i + k <= Len(Overrun(f))
                        THEN Overrun(f)[8 + 8 * i + k] ELSE 0]]

\* Writing past vm->memory is undefined: the members behind it take the
\* bytes, or the bytes fall into padding, or the process dies.
LoadedStacks(f) ==
    IF Overrun(f) = <<>> THEN {LoadedVM(f).stack}
    ELSE {LoadedVM(f).stack, OverrunStack(f)}
LoadOutcomes(f) == IF Overrun(f) = <<>> THEN {"idle"} ELSE {"idle", "crashed"}

Load(f) ==
    /\ mode = "start"
    /\ file' = f
    /\ \E malloc_ok \in BOOLEAN :
       IF LoadRejects(f) \/ ~malloc_ok
       THEN /\ \E m \in LoadErrorOutcomes : mode' = m
            /\ UNCHANGED <<memory, pc, stack, sp, registers, halt, syscall_ctx>>
       ELSE /\ \E m \in LoadOutcomes(f) : mode' = m
            /\ memory' = LoadedVM(f).memory
            /\ pc' = LoadedVM(f).pc
            /\ sp' = LoadedVM(f).sp
            /\ halt' = LoadedVM(f).halt
            /\ \E st \in LoadedStacks(f) : stack' = st
            /\ registers' = LoadedVM(f).registers
            /\ \E ctx \in BOOLEAN : syscall_ctx' = ctx
    /\ UNCHANGED <<limit, budget, dispatched, nsteps, err, result, exit_status,
                   last, oob, stack_idx, reg_acc, stdout>>
    /\ UNCHANGED <<posmvars, codecvars>>

(******************************* system calls ******************************)
\* what a handler of vm_syscalls.c leaves in the VM: r0 = ctx->return_value,
\* halt set by sys_exit, memory bytes stored by sys_read
SysRets == {Zero64, Ones64}
StdinBytes == {INST_PUSH}
SysCalls ==
    [kind : {"value"}, ret : SysRets, n : {0}, byte : {0}]
    \cup [kind : {"exit"}, ret : {Zero64}, n : {0}, byte : {0}]
    \cup [kind : {"read"}, ret : {Zero64}, n : {0, 1}, byte : StdinBytes]

\* sys_read: buf_ptr = r1, max_len = r2; fread stores n <= max_len bytes
SysReadRejects(buf_ptr, max_len) ==
    \/ GeU64(buf_ptr, POCOL_MEMORY_SIZE)
    \/ GeU64(Add64(buf_ptr, max_len), POCOL_MEMORY_SIZE)

SyscallsExec(sc) ==
    IF sc.kind = "exit"
    THEN [registers |-> [registers EXCEPT ![0] = registers[1]],
          memory |-> memory, halt |-> TRUE]
    ELSE IF sc.kind = "read"
    THEN IF SysReadRejects(registers[1], registers[2])
         THEN [registers |-> [registers EXCEPT ![0] = Zero64],
               memory |-> memory, halt |-> halt]
         ELSE IF sc.n = 1 /\ registers[2] # Zero64
         THEN [registers |-> [registers EXCEPT ![0] = U64(1)],
               memory |-> [memory EXCEPT ![Num(registers[1])] = sc.byte],
               halt |-> halt]
         ELSE [registers |-> [registers EXCEPT ![0] = Zero64],
               memory |-> memory, halt |-> halt]
    ELSE [registers |-> [registers EXCEPT ![0] = sc.ret],
          memory |-> memory, halt |-> halt]

(****************************** fetch / decode *****************************)
\* bytes a build may find when it reads past the end of vm->memory
UBBytes == {OPR_NONE, OPR_REG, OPR_IMM}

\* NEXT at address a; ub is what the read yields when a is out of bounds
MemRead(a, ub) == IF a < POCOL_MEMORY_SIZE THEN memory[a] ELSE ub

\* mutant of pocol_fetch64: pc advanced by 4 instead of 8
pocol_fetch64_Short(q) ==
    IF q + 8 >= POCOL_MEMORY_SIZE
    THEN [val |-> Zero64, pc |-> q, exit |-> TRUE, oob |-> FALSE, reg |-> {}]
    ELSE [val |-> [i \in 1..8 |-> memory[q + i - 1]], pc |-> q + 4,
          exit |-> FALSE, oob |-> FALSE, reg |-> {}]

\* the guard of pocol_fetch64 that ends the process
Fetch64Fails(q) == q + 8 >= POCOL_MEMORY_SIZE

pocol_fetch64(q) ==
    IF Fetch64Fails(q)
    THEN [val |-> Zero64, pc |-> q, exit |-> TRUE, oob |-> FALSE, reg |-> {}]
    ELSE [val |-> [i \in 1..8 |-> memory[q + i - 1]], pc |-> q + 8,
          exit |-> FALSE, oob |-> FALSE, reg |-> {}]

pocol_fetch_operand(type, q, ub) ==
    IF type = OPR_REG
    THEN [val |-> registers[REG_OP(MemRead(q, ub))], pc |-> q + 1,
          exit |-> FALSE, oob |-> q >= POCOL_MEMORY_SIZE,
          reg |-> {REG_OP(MemRead(q, ub))}]
    ELSE IF type = OPR_IMM THEN pocol_fetch64(q)
    ELSE [val |-> Zero64, pc |-> q, exit |-> FALSE, oob |-> FALSE, reg |-> {}]


(******************************** dispatch *********************************)
\* the step's result when it stops with the VM as it is, but for pc = w
Keep(w) ==
    [err |-> ERR_OK, exit |-> FALSE, pc |-> w, sp |-> sp, stack |-> stack,
     registers |-> registers, memory |-> memory, halt |-> halt, out |-> <<>>,
     oob |-> FALSE, sidx |-> stack_idx, racc |-> {}]

\* exit(ERR_ILLEGAL_INST_ACCESS) inside pocol_fetch64, with pc = v.pc
Exited(v) == [Keep(U64(v.pc)) EXCEPT !.err = ERR_ILLEGAL_INST_ACCESS, !.exit = TRUE]

\* mutant of PushOverflows: the guard lets a push through at sp = STACK_SIZE
PushOverflows_OffByOne(s) == s > POCOL_STACK_SIZE

PushOverflows(s) == s >= POCOL_STACK_SIZE
PopUnderflows(s) == s = 0

\* case INST_HALT; q is pc after the opcode and descriptor bytes
ExecHalt(q) == [Keep(U64(q)) EXCEPT !.halt = TRUE]

\* case INST_PUSH
ExecPush(q, op1, ub) ==
    IF PushOverflows(sp)
    THEN [Keep(U64(q)) EXCEPT !.err = ERR_STACK_OVERFLOW]
    ELSE LET v == pocol_fetch_operand(op1, q, ub)
         IN  IF v.exit THEN Exited(v)
             ELSE [Keep(U64(v.pc)) EXCEPT !.stack = [stack EXCEPT ![sp] = v.val],
                                          !.sp = sp + 1,
                                          !.oob = v.oob,
                                          !.sidx = sp,
                                          !.racc = v.reg]

\* mutant of ExecPop: the slot is read but sp is not decremented
ExecPop_KeepSp(q, ub) ==
    IF sp = 0
    THEN [Keep(U64(q)) EXCEPT !.err = ERR_STACK_UNDERFLOW]
    ELSE [Keep(U64(q + 1)) EXCEPT
              !.registers = [registers EXCEPT ![REG_OP(MemRead(q, ub))] = stack[sp - 1]],
              !.oob = q >= POCOL_MEMORY_SIZE,
              !.sidx = sp - 1,
              !.racc = {REG_OP(MemRead(q, ub))}]

\* a pop that takes the oldest slot instead of the newest
ExecPop_Bottom(q, ub) ==
    IF PopUnderflows(sp)
    THEN [Keep(U64(q)) EXCEPT !.err = ERR_STACK_UNDERFLOW]
    ELSE [Keep(U64(q + 1)) EXCEPT
              !.registers = [registers EXCEPT ![REG_OP(MemRead(q, ub))] = stack[0]],
              !.sp = sp - 1,
              !.oob = q >= POCOL_MEMORY_SIZE,
              !.sidx = 0,
              !.racc = {REG_OP(MemRead(q, ub))}]

\* case INST_POP: the operand byte is a register whatever the descriptor says
ExecPop(q, ub) ==
    IF PopUnderflows(sp)
    THEN [Keep(U64(q)) EXCEPT !.err = ERR_STACK_UNDERFLOW]
    ELSE [Keep(U64(q + 1)) EXCEPT
              !.registers = [registers EXCEPT ![REG_OP(MemRead(q, ub))] = stack[sp - 1]],
              !.sp = sp - 1,
              !.oob = q >= POCOL_MEMORY_SIZE,
              !.sidx = sp - 1,
              !.racc = {REG_OP(MemRead(q, ub))}]

\* case INST_ADD: dest is read as a register, src is fetched by op2
ExecAdd(q, op2, ub, ub2) ==
    LET dest == REG_OP(MemRead(q, ub))
        v == pocol_fetch_operand(op2, q + 1, ub2)
    IN  IF v.exit THEN Exited(v)
        ELSE [Keep(U64(v.pc)) EXCEPT
                  !.registers = [registers EXCEPT ![dest] = Add64(registers[dest], v.val)],
                  !.oob = (q >= POCOL_MEMORY_SIZE) \/ v.oob,
                  !.racc = {dest} \cup v.reg]

\* a jmp that checks its target against the memory size
ExecJmp_Checked(q, op1, ub) ==
    LET v == pocol_fetch_operand(op1, q, ub)
    IN  IF v.exit THEN Exited(v)
        ELSE IF GeU64(v.val, POCOL_MEMORY_SIZE)
        THEN [Keep(U64(v.pc)) EXCEPT !.err = ERR_ILLEGAL_INST_ACCESS, !.oob = v.oob]
        ELSE [Keep(v.val) EXCEPT !.oob = v.oob, !.racc = v.reg]

\* case INST_JMP
ExecJmp(q, op1, ub) ==
    LET v == pocol_fetch_operand(op1, q, ub)
    IN  IF v.exit THEN Exited(v)
        ELSE [Keep(v.val) EXCEPT !.oob = v.oob, !.racc = v.reg]

\* case INST_PRINT
ExecPrint(q, op1, ub) ==
    LET v == pocol_fetch_operand(op1, q, ub)
    IN  IF v.exit THEN Exited(v)
        ELSE [Keep(U64(v.pc)) EXCEPT !.out = <<v.val>>, !.oob = v.oob, !.racc = v.reg]

\* case INST_SYS
ExecSys(q, sc) ==
    IF syscall_ctx
    THEN LET r == SyscallsExec(sc)
         IN  [Keep(U64(q)) EXCEPT !.registers = r.registers, !.memory = r.memory,
                                  !.halt = r.halt, !.racc = {0}]
    ELSE [Keep(U64(q)) EXCEPT !.registers = [registers EXCEPT ![0] = Ones64],
                              !.racc = {0}]

\* mutant of Dispatch: the default case breaks instead of returning
Dispatch_NoDefault(op, desc, q, ub2, ub3, sc) ==
    CASE op = INST_HALT -> ExecHalt(q)
      [] op = INST_PUSH -> ExecPush(q, DESC_GET_OP1(desc), ub2)
      [] op = INST_POP -> ExecPop(q, ub2)
      [] op = INST_ADD -> ExecAdd(q, DESC_GET_OP2(desc), ub2, ub3)
      [] op = INST_JMP -> ExecJmp(q, DESC_GET_OP1(desc), ub2)
      [] op = INST_PRINT -> ExecPrint(q, DESC_GET_OP1(desc), ub2)
      [] op = INST_SYS -> ExecSys(q, sc)
      [] OTHER -> Keep(U64(q))

\* the switch of pocol_execute_inst
Dispatch(op, desc, q, ub2, ub3, sc) ==
    CASE op = INST_HALT -> ExecHalt(q)
      [] op = INST_PUSH -> ExecPush(q, DESC_GET_OP1(desc), ub2)
      [] op = INST_POP -> ExecPop(q, ub2)
      [] op = INST_ADD -> ExecAdd(q, DESC_GET_OP2(desc), ub2, ub3)
      [] op = INST_JMP -> ExecJmp(q, DESC_GET_OP1(desc), ub2)
      [] op = INST_PRINT -> ExecPrint(q, DESC_GET_OP1(desc), ub2)
      [] op = INST_SYS -> ExecSys(q, sc)
      [] OTHER -> [Keep(U64(q)) EXCEPT !.err = ERR_ILLEGAL_INST]

\* the entry check of pocol_execute_inst
PcOutOfMemory(w) == GeU64(w, POCOL_MEMORY_SIZE)

\* ub1, ub2, ub3: what the reads at pc+1, pc+2, pc+3 yield when out of bounds
pocol_execute_inst(ub1, ub2, ub3, sc) ==
    IF PcOutOfMemory(pc)
    THEN [Keep(pc) EXCEPT !.err = ERR_ILLEGAL_INST_ACCESS]
    ELSE LET p == Num(pc)
             o == Dispatch(memory[p], MemRead(p + 1, ub1), p + 2, ub2, ub3, sc)
         IN  [o EXCEPT !.oob = o.oob \/ (p + 1 >= POCOL_MEMORY_SIZE)]

\* the instruction pocol_execute_inst decodes at pc
Decoded(ub1) ==
    IF PcOutOfMemory(pc) THEN [NoInst EXCEPT !.pc = pc, !.sp = sp]
    ELSE [op |-> memory[Num(pc)], desc |-> MemRead(Num(pc) + 1, ub1), pc |-> pc, sp |-> sp]

(**************************** pocol_execute_program ************************)
Budgets == (-1)..MaxBudget

\* mutant of LoopContinues: the loop does not test vm->halt
LoopContinues_IgnoreHalt(lim, h) == lim # 0

\* mutant of NextLimit: the last unit of the budget is never spent
NextLimit_SkipLast(lim) == IF lim > 1 THEN lim - 1 ELSE lim

LoopContinues(lim, h) == lim # 0 /\ ~h
NextLimit(lim) == IF lim > 0 THEN lim - 1 ELSE lim

\* values an out-of-bounds read at address a may yield
UB(a) == IF a >= POCOL_MEMORY_SIZE THEN UBBytes ELSE {0}

\* the system calls a step may run
SysChoice == IF ~PcOutOfMemory(pc) /\ memory[Num(pc)] = INST_SYS /\ syscall_ctx
             THEN SysCalls ELSE {[kind |-> "value", ret |-> Zero64, n |-> 0, byte |-> 0]}

\* a caller enters pocol_execute_program(vm, n)
Call(n) ==
    /\ mode = "idle"
    /\ mode' = "running"
    /\ limit' = n
    /\ budget' = n
    /\ dispatched' = 0
    /\ err' = NoErr
    /\ result' = NoErr
    /\ last' = NoInst
    /\ reg_acc' = {}
    /\ UNCHANGED <<file, memory, pc, stack, sp, registers, halt, syscall_ctx, nsteps,
                   exit_status, oob, stack_idx, stdout>>
    /\ UNCHANGED <<posmvars, codecvars>>

\* one iteration of the while loop
Step ==
    /\ mode = "running"
    /\ LoopContinues(limit, halt)
    /\ nsteps < MaxSteps
    /\ LET a == IF PcOutOfMemory(pc) THEN 0 ELSE Num(pc)
       IN  \E ub1 \in UB(a + 1), ub2 \in UB(a + 2), ub3 \in UB(a + 3), sc \in SysChoice :
             LET o == pocol_execute_inst(ub1, ub2, ub3, sc)
             IN  /\ memory' = o.memory
                 /\ pc' = o.pc
                 /\ stack' = o.stack
                 /\ sp' = o.sp
                 /\ registers' = o.registers
                 /\ halt' = o.halt
                 /\ err' = o.err
                 /\ last' = Decoded(ub1)
                 /\ oob' = (oob \/ o.oob)
                 /\ stack_idx' = o.sidx
                 /\ reg_acc' = o.racc
                 /\ stdout' = stdout \o o.out
                 /\ nsteps' = nsteps + 1
                 /\ dispatched' = dispatched + 1
                 /\ IF o.exit
                    THEN /\ mode' = "exited"
                         /\ exit_status' = ERR_ILLEGAL_INST_ACCESS
                         /\ UNCHANGED <<limit, result>>
                    ELSE IF o.err # ERR_OK
                    THEN /\ mode' = "idle"
                         /\ result' = o.err
                         /\ UNCHANGED <<limit, exit_status>>
                    ELSE /\ limit' = NextLimit(limit)
                         /\ UNCHANGED <<mode, result, exit_status>>
    /\ UNCHANGED <<file, syscall_ctx, budget>>
    /\ UNCHANGED <<posmvars, codecvars>>

\* the loop condition fails: return ERR_OK
Return ==
    /\ mode = "running"
    /\ ~LoopContinues(limit, halt)
    /\ mode' = "idle"
    /\ result' = ERR_OK
    /\ UNCHANGED <<file, memory, pc, stack, sp, registers, halt, syscall_ctx, limit,
                   budget, dispatched, nsteps, err, exit_status, last, oob, stack_idx,
                   reg_acc, stdout>>
    /\ UNCHANGED <<posmvars, codecvars>>

\* main of pm.c returns (int)err: err is ERR_OK unless the load succeeded and
\* pocol_execute_program returned something else (normal execution, without
\* --jit and --debug)
MainReturn ==
    /\ \/ mode = "loadfail"
       \/ mode = "idle" /\ result # NoErr
    /\ mode' = "returned"
    /\ exit_status' = IF mode = "loadfail" THEN ERR_OK ELSE result
    /\ UNCHANGED <<file, memory, pc, stack, sp, registers, halt, syscall_ctx, limit,
                   budget, dispatched, nsteps, err, result, last, oob, stack_idx,
                   reg_acc, stdout>>
    /\ UNCHANGED <<posmvars, codecvars>>

(***************************************************************************)
(* posm, the assembler of src/posm/compiler.c.  The source text is a tuple *)
(* of one-character strings, closed by the NUL the mapping supplies; the   *)
(* cursor is an offset into it.  The lexer's globals travel through the    *)
(* operators as one record cx = [source, cursor, line, col, error_count,   *)
(* stderr].                                                                *)
(***************************************************************************)
TOK_EOF == 0
TOK_ILLEGAL == 1
TOK_INT == 2
TOK_LABEL == 3
TOK_IDENT == 4
TOK_REGISTER == 5

SYM_LABEL == 0

NUL == ""
NULL == -1          \* the null pointer, for cursor and for table names
NoFile == <<-1>>    \* no file at a path

Lower == {"a", "b", "c", "d", "e", "f", "g", "h", "i", "j", "k", "l", "m",
          "n", "o", "p", "q", "r", "s", "t", "u", "v", "w", "x", "y", "z"}
Upper == {"A", "B", "C", "D", "E", "F", "G", "H", "I", "J", "K", "L", "M",
          "N", "O", "P", "Q", "R", "S", "T", "U", "V", "W", "X", "Y", "Z"}
DigitChars == <<"0", "1", "2", "3", "4", "5", "6", "7", "8", "9">>

isspace(c) == c \in {" ", "\t", "\n", "\f", "\r"}
isdigit(c) == \E d \in 1..10 : DigitChars[d] = c
isalpha(c) == c \in Lower \cup Upper
isalnum(c) == isalpha(c) \/ isdigit(c)
DigitVal(c) == (CHOOSE d \in 1..10 : DigitChars[d] = c) - 1

\* source[i], the terminating NUL from the end of the text on
CharAt(src, i) == IF i < Len(src) THEN src[i + 1] ELSE NUL
Cur(cx) == CharAt(cx.source, cx.cursor)
Text(src, start, length) == [k \in 1..length |-> src[start + k]]

consume(cx) ==
    IF Cur(cx) = NUL THEN cx
    ELSE IF Cur(cx) = "\n"
    THEN [cx EXCEPT !.line = @ + 1, !.col = 1, !.cursor = @ + 1]
    ELSE [cx EXCEPT !.col = @ + 1, !.cursor = @ + 1]

RECURSIVE consume_until_newline(_)
consume_until_newline(cx) ==
    CHOOSE r \in { IF c.cursor = NULL THEN c
                   ELSE IF Cur(c) # "\n" /\ Cur(c) # NUL
                   THEN consume_until_newline(consume(c))
                   ELSE c : c \in {cx} } : TRUE

\* one diagnostic on stderr: the line:col prefix is printed only if line > 0
report(cx, msg, arg) ==
    [cx EXCEPT !.stderr = Append(@, [msg |-> msg, arg |-> arg, line |-> cx.line,
                                     col |-> IF cx.line > 0 THEN cx.col ELSE 0]),
               !.error_count = @ + 1]

compiler_error(cx, msg, arg) == consume_until_newline(report(cx, msg, arg))

RECURSIVE consume_n(_, _)
consume_n(cx, n) ==
    CHOOSE r \in { IF n = 0 THEN c ELSE consume_n(consume(c), n - 1) : c \in {cx} } : TRUE

(* strtol(cursor, &end, 10) on a 64-bit long: the magnitude is built digit  *)
(* by digit in 8 bytes; too large a value saturates and sets ERANGE.        *)
LONG_MAX == <<255, 255, 255, 255, 255, 255, 255, 127>>
LONG_MIN == <<0, 0, 0, 0, 0, 0, 0, 128>>

RECURSIVE MulCarry(_, _, _)
MulCarry(w, d, i) == IF i = 0 THEN d ELSE (w[i] * 10 + MulCarry(w, d, i - 1)) \div 256
Mul10Add(w, d) == [i \in 1..8 |-> (w[i] * 10 + MulCarry(w, d, i - 1)) % 256]

RECURSIVE DigitRun(_, _)
DigitRun(src, i) == IF isdigit(CharAt(src, i)) THEN 1 + DigitRun(src, i + 1) ELSE 0

\* magnitude of the n digits from offset i on, started from acc
RECURSIVE Magnitude(_, _, _, _)
Magnitude(src, i, n, acc) ==
    CHOOSE r \in
        { IF n = 0 THEN a
          ELSE Magnitude(src, i + 1, n - 1,
                         [w |-> Mul10Add(a.w, d),
                          over |-> a.over \/ MulCarry(a.w, d, 8) # 0]) :
            a \in {acc}, d \in {IF n = 0 THEN 0 ELSE DigitVal(CharAt(src, i))} } : TRUE

Neg64(w) == Add64([i \in 1..8 |-> 255 - w[i]], U64(1))

strtol(src, i) ==
    LET neg == CharAt(src, i) = "-"
        from == IF neg THEN i + 1 ELSE i
        n == DigitRun(src, from)
        m == Magnitude(src, from, n, [w |-> Zero64, over |-> FALSE])
        length == n + (IF neg THEN 1 ELSE 0)
    IN  IF ~neg
        THEN IF m.over \/ m.w[8] >= 128
             THEN [value |-> LONG_MAX, length |-> length, erange |-> TRUE]
             ELSE [value |-> m.w, length |-> length, erange |-> FALSE]
        ELSE IF m.over \/ (m.w[8] >= 128 /\ m.w # LONG_MIN)
             THEN [value |-> LONG_MIN, length |-> length, erange |-> TRUE]
             ELSE [value |-> Neg64(m.w), length |-> length, erange |-> FALSE]

\* atoi(t.start + 1) for a digit run whose value an int holds
atoi(src, i) == strtol(src, i).value

RECURSIVE SkipBlanks(_)
SkipBlanks(cx) ==
    CHOOSE r \in
        { IF Cur(c) = NUL THEN c
          ELSE IF isspace(Cur(c)) \/ Cur(c) = "," THEN SkipBlanks(consume(c))
          ELSE IF Cur(c) = ";" THEN SkipBlanks(consume_until_newline(c))
          ELSE c : c \in {cx} } : TRUE

RECURSIVE SkipName(_)
SkipName(cx) ==
    CHOOSE r \in { IF isalnum(Cur(c)) \/ Cur(c) = "_" THEN SkipName(consume(c)) ELSE c :
                   c \in {cx} } : TRUE

Token(type, start, length, value) ==
    [type |-> type, start |-> start, length |-> length, value |-> value]

\* a next that reports an illegal character and leaves the cursor on it
next_KeepIllegal(cx0) ==
    LET cx == SkipBlanks(cx0)
        start == cx.cursor
        c == Cur(cx)
    IN  IF c = NUL THEN [tok |-> Token(TOK_EOF, start, 0, Zero64), cx |-> cx]
        ELSE IF isdigit(c) \/ (c = "-" /\ isdigit(CharAt(cx.source, start + 1)))
        THEN LET n == strtol(cx.source, start)
                 e == IF n.erange THEN compiler_error(cx, "Integrer out of range", <<>>)
                      ELSE cx
             IN  [tok |-> Token(TOK_INT, start, n.length, n.value),
                  cx |-> consume_n(e, n.length)]
        ELSE IF isalpha(c) \/ c = "_"
        THEN LET e == SkipName(cx)
             IN  IF Cur(e) = ":"
                 THEN [tok |-> Token(TOK_LABEL, start, e.cursor - start, Zero64),
                       cx |-> consume(e)]
                 ELSE IF c = "r"
                 THEN [tok |-> Token(TOK_REGISTER, start, 0,
                                     IF isdigit(CharAt(cx.source, start + 1))
                                     THEN atoi(cx.source, start + 1) ELSE Zero64),
                       cx |-> e]
                 ELSE [tok |-> Token(TOK_IDENT, start, e.cursor - start, Zero64),
                       cx |-> e]
        ELSE [tok |-> Token(TOK_ILLEGAL, start, 0, Zero64),
              cx |-> report(cx, "Illegal character in program", <<c>>)]

\* next -- take the next token from cursor: the token and the lexer after it
next(cx0) ==
    LET cx == SkipBlanks(cx0)
        start == cx.cursor
        c == Cur(cx)
    IN  IF c = NUL THEN [tok |-> Token(TOK_EOF, start, 0, Zero64), cx |-> cx]
        ELSE IF isdigit(c) \/ (c = "-" /\ isdigit(CharAt(cx.source, start + 1)))
        THEN LET n == strtol(cx.source, start)
                 e == IF n.erange THEN compiler_error(cx, "Integrer out of range", <<>>)
                      ELSE cx
             IN  [tok |-> Token(TOK_INT, start, n.length, n.value),
                  cx |-> consume_n(e, n.length)]
        ELSE IF isalpha(c) \/ c = "_"
        THEN LET e == SkipName(cx)
             IN  IF Cur(e) = ":"
                 THEN [tok |-> Token(TOK_LABEL, start, e.cursor - start, Zero64),
                       cx |-> consume(e)]
                 ELSE IF c = "r"
                 THEN [tok |-> Token(TOK_REGISTER, start, 0,
                                     IF isdigit(CharAt(cx.source, start + 1))
                                     THEN atoi(cx.source, start + 1) ELSE Zero64),
                       cx |-> e]
                 ELSE [tok |-> Token(TOK_IDENT, start, e.cursor - start, Zero64),
                       cx |-> e]
        ELSE [tok |-> Token(TOK_ILLEGAL, start, 0, Zero64),
              cx |-> consume(compiler_error(cx, "Illegal character in program", <<c>>))]

\* the lexer after i calls of next, and the token of the last one
RECURSIVE NextTimes(_, _)
NextTimes(cx, i) ==
    IF i = 1 THEN next(cx)
    ELSE CHOOSE r \in {next(before.cx) : before \in {NextTimes(cx, i - 1)}} : TRUE

\* a peek that puts back the cursor and the line but not the column
peek_KeepCol(cx, n) ==
    LET r == NextTimes(cx, n + 1)
    IN  [tok |-> r.tok, cx |-> [r.cx EXCEPT !.cursor = cx.cursor, !.line = cx.line]]

\* peek -- the token n tokens ahead; cursor, line and col are put back
peek(cx, n) ==
    LET r == NextTimes(cx, n + 1)
    IN  [tok |-> r.tok,
         cx |-> [r.cx EXCEPT !.cursor = cx.cursor, !.line = cx.line, !.col = cx.col]]

(****************************** symbol table *******************************)
\* index of the first entry with this kind and name, 0 for NULL
pocol_symfind(sym, kind, name) ==
    LET hit(i) == sym[i].kind = kind /\ sym[i].name = name
    IN  IF \E i \in 1..Len(sym) : hit(i)
        THEN CHOOSE i \in 1..Len(sym) : hit(i) /\ \A j \in 1..(i - 1) : ~hit(j)
        ELSE 0

\* a push that does not look the symbol up first
pocol_sympush_NoLookup(sym, data) == [ret |-> 0, sym |-> Append(sym, data)]

\* a push that stores the new data over the entry it finds
pocol_sympush_Overwrite(sym, data) ==
    LET i == pocol_symfind(sym, data.kind, data.name)
    IN  IF i # 0 THEN [ret |-> -1, sym |-> [sym EXCEPT ![i] = data]]
        ELSE [ret |-> 0, sym |-> Append(sym, data)]

pocol_sympush(sym, data) ==
    IF pocol_symfind(sym, data.kind, data.name) # 0
    THEN [ret |-> -1, sym |-> sym]
    ELSE [ret |-> 0, sym |-> Append(sym, data)]

SymData(kind, name, label_pc) ==
    [kind |-> kind, name |-> name, pc |-> label_pc, is_defined |-> 1]

(****************************** 64-bit emitters ****************************)
\* A uint64_t handed to the emitters is kept as its four 16-bit limbs, most
\* significant first, so that the shifts of the emitter are computed; the
\* values the runs are made with:
Limbs == {0, 258, 32768, 65535}
Words == {<<a, b, c, d>> : a, b, c, d \in Limbs}

\* (val >> (i * 8)) & 0xFF
ShiftMask(val, i) == (val[4 - (i \div 2)] \div (IF i % 2 = 0 THEN 1 ELSE 256)) % 256

\* an emitter that writes the most significant byte first
pocol_write64_BigEndian(val) == [k \in 1..8 |-> ShiftMask(val, 8 - k)]

\* pocol_write64: bytes[i] = (val >> (i * 8)) & 0xFF, written in the order of i
pocol_write64(val) == [k \in 1..8 |-> ShiftMask(val, k - 1)]

\* emit64 of emit.h, the same loop
emit64(val) == [k \in 1..8 |-> ShiftMask(val, k - 1)]

\* the uint64_t a little-endian host finds in the 8 bytes memcpy stored in it
Value64(w) == <<w[7] + 256 * w[8], w[5] + 256 * w[6], w[3] + 256 * w[4], w[1] + 256 * w[2]>>

(********************************* parser **********************************)
NullName == <<NULL>>     \* the name of a table entry no initializer sets

\* inst_table[COUNT_INST]: the designated initializers name halt, push, pop,
\* add and print; the entries of INST_JMP and INST_SYS are left zeroed
inst_table ==
    [i \in 0..(COUNT_INST - 1) |->
        CASE i = INST_HALT -> [type |-> INST_HALT, name |-> <<"h", "a", "l", "t">>, operand |-> 0]
          [] i = INST_PUSH -> [type |-> INST_PUSH, name |-> <<"p", "u", "s", "h">>, operand |-> 1]
          [] i = INST_POP -> [type |-> INST_POP, name |-> <<"p", "o", "p">>, operand |-> 1]
          [] i = INST_ADD -> [type |-> INST_ADD, name |-> <<"a", "d", "d">>, operand |-> 2]
          [] i = INST_PRINT ->
               [type |-> INST_PRINT, name |-> <<"p", "r", "i", "n", "t">>, operand |-> 1]
          [] OTHER -> [type |-> 0, name |-> NullName, operand |-> 0]]

\* strncmp(name, start, n) == 0, from character k on
RECURSIVE StrncmpEq(_, _, _, _, _)
StrncmpEq(name, src, start, n, k) ==
    IF k = n THEN TRUE
    ELSE LET a == IF k < Len(name) THEN name[k + 1] ELSE NUL
             b == CharAt(src, start + k)
         IN  IF a # b THEN FALSE
             ELSE IF a = NUL THEN TRUE
             ELSE StrncmpEq(name, src, start, n, k + 1)

\* strncmp on the null name of a zeroed entry is undefined: the search dies
\* there, or the comparison reads something that differs and the search goes on
NullNameOutcomes == {"crash", "differs"}
Crashed == COUNT_INST + 1

\* the search of the instruction table from entry i on: the index of the
\* entry found, COUNT_INST if there is none (inst == NULL), Crashed
RECURSIVE FindInst(_, _, _, _)
FindInst(src, mnemonic, i, ub) ==
    IF i = COUNT_INST THEN COUNT_INST
    ELSE IF inst_table[i].name = NullName
    THEN IF ub = "crash" THEN Crashed ELSE FindInst(src, mnemonic, i + 1, ub)
    ELSE IF /\ StrncmpEq(inst_table[i].name, src, mnemonic.start, mnemonic.length, 0)
            /\ Len(inst_table[i].name) = mnemonic.length
    THEN i
    ELSE FindInst(src, mnemonic, i + 1, ub)

TypeOf(t) == IF t.type = TOK_REGISTER THEN OPR_REG
             ELSE IF t.type = TOK_INT \/ t.type = TOK_IDENT THEN OPR_IMM
             ELSE OPR_NONE

\* the operand types of an instruction of n operands, from the tokens peek(0)
\* and peek(1) found, and the lexer after the peeks (which keep the
\* diagnostics of the tokens they pass)
TypesOfOne(p0) == [types |-> <<TypeOf(p0.tok), OPR_NONE>>, cx |-> p0.cx]
TypesOfBoth(p0, p1) == [types |-> <<TypeOf(p0.tok), TypeOf(p1.tok)>>, cx |-> p1.cx]
TypesAfterFirst(p0) == TypesOfBoth(p0, peek(p0.cx, 1))

OperandTypes(cx, n) ==
    IF n = 0 THEN [types |-> <<OPR_NONE, OPR_NONE>>, cx |-> cx]
    ELSE IF n = 1 THEN TypesOfOne(peek(cx, 0))
    ELSE TypesAfterFirst(peek(cx, 0))

\* the end of one round of the operand loop: val is written as the type
\* says and parser_advance has taken the token n
Emitted(st, type, val, ref, n) ==
    [cx |-> n.cx, la |-> n.tok,
     out |-> st.out \o (IF type = OPR_REG THEN <<val[1]>>
                         ELSE pocol_write64(Value64(val))),
     refs |-> st.refs \o ref]

\* an identifier operand: s is what pocol_symfind returned for its name
EmitIdent(st, type, syms, name, s) ==
    Emitted(st, type, IF s # 0 THEN syms[s].pc ELSE st.la.value,
            <<[name |-> name, at |-> Len(st.out), type |-> type]>>,
            next(IF s # 0 THEN st.cx
                 ELSE compiler_error(st.cx, "indentifier not defined", name)))

EmitNamed(st, type, syms, name) ==
    EmitIdent(st, type, syms, name, pocol_symfind(syms, SYM_LABEL, name))

\* one round of the operand loop of parse_inst, on st = [cx, la, out, refs]
EmitOperand(st, type, syms) ==
    IF st.la.type = TOK_IDENT
    THEN EmitNamed(st, type, syms, Text(st.cx.source, st.la.start, st.la.length))
    ELSE Emitted(st, type, st.la.value, <<>>, next(st.cx))

RECURSIVE EmitOperands(_, _, _, _, _)
EmitOperands(st, types, syms, i, n) ==
    IF i > n THEN st
    ELSE EmitOperands(EmitOperand(st, types[i], syms), types, syms, i + 1, n)

ParseResult(ret, crash, st) ==
    [ret |-> ret, crash |-> crash, cx |-> st.cx, la |-> st.la, out |-> st.out,
     refs |-> st.refs]

\* opcode and descriptor are written after parser_advance took the token a
\* that follows the mnemonic; then the operand loop runs
ParseOperands(o, syms, rf, inst, types, a) ==
    ParseResult(0, FALSE,
                EmitOperands([cx |-> a.cx, la |-> a.tok,
                              out |-> o \o <<inst.type, DESC_PACK(types[1], types[2])>>,
                              refs |-> rf],
                             types, syms, 1, inst.operand))

ParseTyped(o, syms, rf, inst, t) == ParseOperands(o, syms, rf, inst, t.types, next(t.cx))

\* parse_inst once the search of the table has ended with i
ParseFound(st, syms, i) ==
    IF i = Crashed THEN ParseResult(-1, TRUE, st)
    ELSE IF i = COUNT_INST THEN ParseResult(-1, FALSE, st)
    ELSE ParseTyped(st.out, syms, st.refs, inst_table[i],
                    OperandTypes(st.cx, inst_table[i].operand))

\* parse_inst on the lookahead la: ret 0 with the bytes written, ret -1 if
\* the mnemonic is not in the table, crash if the search died
parse_inst(cx, la, o, syms, rf, ub) ==
    ParseFound([cx |-> cx, la |-> la, out |-> o, refs |-> rf], syms,
               FindInst(cx.source, la, 0, ub))

(***************************** pocol_compile_file **************************)
NL == <<"\n">>

\* the source lines the assembled texts are made of
Lines ==
    { <<"_", "s", "t", "a", "r", "t", ":">>,
      <<"a", ":">>,
      <<"h", "a", "l", "t">>,
      <<"p", "u", "s", "h", " ", "a">>,
      <<"p", "u", "s", "h">>,
      <<"p", "o", "p", " ", "r", "1">>,
      <<"a", "d", "d", " ", "r", "1", ",", " ", "2">>,
      <<"j", "m", "p", " ", "a">>,
      <<"p", "r", "i", "n", "t", " ", "r", "1">>,
      <<"a">>,
      <<"a", ":", " ", "h", "a", "l", "t">>,
      <<"p", "o", "p", " ", "r", "9">>,
      <<"@">> }

RECURSIVE SourcesOf(_)
SourcesOf(n) == IF n = 0 THEN {<<>>}
                ELSE SourcesOf(n - 1) \cup {s \o l \o NL : s \in SourcesOf(n - 1), l \in Lines}

\* texts of 1..MaxLines lines (mmap of an empty file fails)
Sources == SourcesOf(MaxLines) \ {<<>>}

\* what the output path may hold when the assembler gets to it
OldObject == <<0>>
OutputsBefore == {NoFile, OldObject}

Ctx == [source |-> source, cursor |-> cursor, line |-> line, col |-> col,
        error_count |-> error_count, stderr |-> stderr]

SetCtx(cx) ==
    /\ source' = cx.source
    /\ cursor' = cx.cursor
    /\ line' = cx.line
    /\ col' = cx.col
    /\ error_count' = cx.error_count
    /\ stderr' = cx.stderr

NoToken == Token(TOK_EOF, 0, 0, Zero64)
NoSym == SymData(SYM_LABEL, <<>>, Zero64)

\* the text of the lookahead token
LookaheadName == Text(source, lookahead.start, lookahead.length)

\* pocol_compile_file up to the first token: open, fstat and mmap the source,
\* create the temporary file, write the magic, set the lexer to the start
CompileOpen(src, open_ok) ==
    /\ posm = "start"
    /\ IF open_ok
       THEN LET n == next([Ctx EXCEPT !.source = src, !.cursor = 0, !.line = 1])
            IN  /\ posm' = "compiling"
                /\ SetCtx(n.cx)
                /\ lookahead' = n.tok
                /\ out' = POCOL_MAGIC
                /\ tempfile' = TRUE
                /\ UNCHANGED compile_ret
       ELSE /\ posm' = "returned"
            /\ SetCtx(compiler_error(Ctx, "strerror", <<>>))
            /\ compile_ret' = -1
            /\ UNCHANGED <<lookahead, out, tempfile>>
    /\ UNCHANGED <<symbols, outfile, outprev, refs, sym_ret, sym_arg, sym_calls>>
    /\ UNCHANGED <<pmvars, codecvars, lexed>>

\* the loop body on a label definition
CompileLabel ==
    /\ posm = "compiling"
    /\ lookahead.type = TOK_LABEL
    /\ LET symdata == SymData(SYM_LABEL, LookaheadName, U64(Len(out)))
           r == pocol_sympush(symbols, symdata)
           e == IF r.ret = -1
                THEN compiler_error(Ctx, "duplicate label", symdata.name)
                ELSE Ctx
           n == next(consume_until_newline(e))
       IN  /\ symbols' = r.sym
           /\ sym_ret' = r.ret
           /\ sym_arg' = symdata
           /\ sym_calls' = sym_calls + 1
           /\ SetCtx(n.cx)
           /\ lookahead' = n.tok
    /\ UNCHANGED <<posm, out, tempfile, outfile, outprev, compile_ret, refs>>
    /\ UNCHANGED <<pmvars, codecvars, lexed>>

\* the loop body on an identifier: an instruction, else the name of a label
\* already defined (its address is written), else an unknown instruction
CompileIdent ==
    /\ posm = "compiling"
    /\ lookahead.type = TOK_IDENT
    /\ \E ub \in NullNameOutcomes :
         \E r \in {parse_inst(Ctx, lookahead, out, symbols, refs, ub)},
            s \in {pocol_symfind(symbols, SYM_LABEL, LookaheadName)} :
           IF r.crash
           THEN /\ posm' = "crashed"
                /\ UNCHANGED <<lexvars, lookahead, out, refs>>
           ELSE IF r.ret = 0
           THEN /\ SetCtx(r.cx)
                /\ lookahead' = r.la
                /\ out' = r.out
                /\ refs' = r.refs
                /\ UNCHANGED posm
           ELSE \E n \in {next(IF s # 0 THEN Ctx
                                ELSE compiler_error(Ctx, "unknown instruction in program",
                                                    LookaheadName))} :
                  /\ SetCtx(n.cx)
                  /\ lookahead' = n.tok
                  /\ out' = IF s # 0 THEN out \o pocol_write64(Value64(symbols[s].pc))
                             ELSE out
                  /\ UNCHANGED <<posm, refs>>
    /\ UNCHANGED <<symbols, tempfile, outfile, outprev, compile_ret, sym_ret, sym_arg,
                   sym_calls>>
    /\ UNCHANGED <<pmvars, codecvars, lexed>>

\* the loop body on any other token: skip it
CompileSkip ==
    /\ posm = "compiling"
    /\ lookahead.type \in {TOK_ILLEGAL, TOK_INT, TOK_REGISTER}
    /\ LET n == next(Ctx)
       IN  /\ SetCtx(n.cx)
           /\ lookahead' = n.tok
    /\ UNCHANGED <<posm, symbols, out, tempfile, outfile, outprev, compile_ret, refs,
                   sym_ret, sym_arg, sym_calls>>
    /\ UNCHANGED <<pmvars, codecvars, lexed>>

\* Reading *cursor after munmap(source) is undefined: each of the two
\* compiler_error calls of the failed rename dies in consume_until_newline,
\* or finds the end of a line there and returns.
UnmappedOutcomes == {"crash", "crash after unlink", "continue"}

\* after the loop: unmap and close; with errors report the total, unlink the
\* temporary file and fail; else rename it to the output path, which holds
\* `before` until then
CompileFinish(before, rename_ok) ==
    /\ posm = "compiling"
    /\ lookahead.type = TOK_EOF
    /\ outprev' = before
    /\ IF error_count > 0
       THEN /\ SetCtx(compiler_error([Ctx EXCEPT !.cursor = NULL, !.line = 0],
                                     "Compilation failed.", <<error_count>>))
            /\ tempfile' = FALSE
            /\ posm' = "returned"
            /\ compile_ret' = -1
            /\ outfile' = before
       ELSE IF rename_ok
       THEN /\ outfile' = out
            /\ tempfile' = FALSE
            /\ posm' = "returned"
            /\ compile_ret' = 0
            /\ UNCHANGED lexvars
       ELSE \E ub \in UnmappedOutcomes :
              LET moved == report(Ctx, "failed to move", <<>>)
                  again == report(moved, "strerror", <<>>)
              IN  /\ outfile' = before
                  /\ IF ub = "crash"
                     THEN /\ SetCtx(moved)
                          /\ posm' = "crashed"
                          /\ UNCHANGED <<tempfile, compile_ret>>
                     ELSE IF ub = "crash after unlink"
                     THEN /\ SetCtx(again)
                          /\ tempfile' = FALSE
                          /\ posm' = "crashed"
                          /\ UNCHANGED compile_ret
                     ELSE /\ SetCtx(again)
                          /\ tempfile' = FALSE
                          /\ posm' = "returned"
                          /\ compile_ret' = -1
    /\ UNCHANGED <<symbols, lookahead, out, refs, sym_ret, sym_arg, sym_calls>>
    /\ UNCHANGED <<pmvars, codecvars, lexed>>

\* the data a caller may push
SymNames == {<<"a">>, <<"b">>, <<"_", "s", "t", "a", "r", "t">>}
SymPcs == {U64(4), U64(6)}
SymInputs == {SymData(SYM_LABEL, n, a) : n \in SymNames, a \in SymPcs}

\* a call pocol_sympush(&symbols, &data)
SymPush(data) ==
    /\ posm = "start"
    /\ sym_calls < MaxPushes
    /\ LET r == pocol_sympush(symbols, data)
       IN  /\ symbols' = r.sym
           /\ sym_ret' = r.ret
           /\ sym_arg' = data
    /\ sym_calls' = sym_calls + 1
    /\ UNCHANGED <<posm, lexvars, lookahead, out, tempfile, outfile, outprev, compile_ret,
                   refs>>
    /\ UNCHANGED <<pmvars, codecvars, lexed>>

\* the lexer called on its own: the scanner set to the start of a text as
\* pocol_compile_file sets it, then next() and peek(n) in any order
NoLexed == [call |-> "none", n |-> 0, tok |-> NoToken]

\* pieces of text and what separates them
LexPieces ==
    { <<"r", "e", "t">>, <<"r">>, <<"r", "9">>, <<"r", "1", "2">>, <<"h", "a", "l", "t">>,
      <<"_", "a", "1", ":">>, <<"@">>, <<"-", "5">>, <<";", "c">>,
      <<"9", "9", "9", "9", "9", "9", "9", "9", "9", "9",
        "9", "9", "9", "9", "9", "9", "9", "9", "9", "9">> }
LexSeps == { <<" ">>, <<"\n">> }

\* texts of one piece, and of two pieces on one line or on two
LexSources ==
    LexPieces \cup {p \o sep \o q : p \in LexPieces, sep \in LexSeps, q \in LexPieces}

\* cursor = source; line = 1 of pocol_compile_file, without the first next()
LexOpen(src) ==
    /\ posm = "start"
    /\ posm' = "lexing"
    /\ SetCtx([Ctx EXCEPT !.source = src, !.cursor = 0, !.line = 1])
    /\ UNCHANGED <<symbols, lookahead, out, tempfile, outfile, outprev, compile_ret, refs,
                   sym_ret, sym_arg, sym_calls, lexed>>
    /\ UNCHANGED <<pmvars, codecvars>>

\* one call of next()
LexNext ==
    /\ posm = "lexing"
    /\ LET r == next(Ctx)
       IN  /\ SetCtx(r.cx)
           /\ lexed' = [call |-> "next", n |-> 0, tok |-> r.tok]
    /\ UNCHANGED <<posm, symbols, lookahead, out, tempfile, outfile, outprev, compile_ret,
                   refs, sym_ret, sym_arg, sym_calls>>
    /\ UNCHANGED <<pmvars, codecvars>>

\* one call of peek(n); no more calls once MaxDiags diagnostics are out
LexPeek(n) ==
    /\ posm = "lexing"
    /\ Len(stderr) < MaxDiags
    /\ LET r == peek(Ctx, n)
       IN  /\ SetCtx(r.cx)
           /\ lexed' = [call |-> "peek", n |-> n, tok |-> r.tok]
    /\ UNCHANGED <<posm, symbols, lookahead, out, tempfile, outfile, outprev, compile_ret,
                   refs, sym_ret, sym_arg, sym_calls>>
    /\ UNCHANGED <<pmvars, codecvars>>

InitPosm ==
    /\ posm = "start"
    /\ source = <<>>
    /\ cursor = NULL
    /\ line = 0
    /\ col = 1
    /\ error_count = 0
    /\ symbols = <<>>
    /\ lookahead = NoToken
    /\ out = <<>>
    /\ tempfile = FALSE
    /\ outfile = NoFile
    /\ outprev = NoFile
    /\ compile_ret = NoErr
    /\ stderr = <<>>
    /\ refs = <<>>
    /\ sym_ret = NoErr
    /\ sym_arg = NoSym
    /\ sym_calls = 0
    /\ lexed = NoLexed

(********************************* codecs **********************************)
OperandKinds == {OPR_NONE, OPR_REG, OPR_IMM}
NoPacking == [op1 |-> OPR_NONE, op2 |-> OPR_NONE, wide |-> 0, desc |-> 0,
              get1 |-> OPR_NONE, get2 |-> OPR_NONE]

\* uint8_t desc = DESC_PACK(a, b); op1 = DESC_GET_OP1(desc); op2 = DESC_GET_OP2(desc)
Unpacked(a, b, wide, desc) ==
    [op1 |-> a, op2 |-> b, wide |-> wide, desc |-> desc,
     get1 |-> DESC_GET_OP1(desc), get2 |-> DESC_GET_OP2(desc)]

\* main of descriptor_packing.c, for any two operand kinds
Pack(a, b) ==
    /\ codec = "start"
    /\ codec' = "packed"
    /\ packing' = Unpacked(a, b, DESC_PACK(a, b), DESC_PACK(a, b) % 256)
    /\ UNCHANGED <<v64, fetched64>>
    /\ UNCHANGED <<pmvars, posmvars>>

\* the 8 bytes an emitter writes to the output stream
Written(v, bytes) ==
    /\ codec = "start"
    /\ codec' = "written"
    /\ v64' = v
    /\ out' = out \o bytes
    /\ UNCHANGED <<packing, fetched64>>
    /\ UNCHANGED <<posm, lexvars, symbols, lookahead, tempfile, outfile, outprev,
                   compile_ret, refs, sym_ret, sym_arg, sym_calls, lexed>>
    /\ UNCHANGED pmvars

Write64(v) == Written(v, pocol_write64(v))
Emit64(v) == Written(v, emit64(v))

\* the bytes written are found at address a of vm->memory, pc is at them
Place(a) ==
    /\ codec = "written"
    /\ codec' = "placed"
    /\ memory' = [i \in 0..(POCOL_MEMORY_SIZE - 1) |->
                    IF i >= a /\ i < a + 8 THEN out[i - a + 1] ELSE memory[i]]
    /\ pc' = U64(a)
    /\ UNCHANGED <<mode, file, stack, sp, registers, halt, syscall_ctx, limit, budget,
                   dispatched, nsteps, err, result, exit_status, last, oob, stack_idx,
                   reg_acc, stdout>>
    /\ UNCHANGED <<packing, v64, fetched64>>
    /\ UNCHANGED posmvars

\* pocol_fetch64(vm)
Fetch ==
    /\ codec = "placed"
    /\ \E o \in {pocol_fetch64(Num(pc))} :
         IF o.exit
         THEN /\ codec' = "exited"
              /\ exit_status' = ERR_ILLEGAL_INST_ACCESS
              /\ UNCHANGED <<pc, fetched64>>
         ELSE /\ codec' = "fetched"
              /\ fetched64' = o.val
              /\ pc' = U64(o.pc)
              /\ UNCHANGED exit_status
    /\ UNCHANGED <<mode, file, memory, stack, sp, registers, halt, syscall_ctx, limit,
                   budget, dispatched, nsteps, err, result, last, oob, stack_idx,
                   reg_acc, stdout>>
    /\ UNCHANGED <<packing, v64>>
    /\ UNCHANGED posmvars

InitCodec ==
    /\ codec = "start"
    /\ packing = NoPacking
    /\ v64 = <<0, 0, 0, 0>>
    /\ fetched64 = Zero64

Init ==
    /\ InitPosm
    /\ InitCodec
    /\ mode = "start"
    /\ file = <<>>
    /\ memory = [i \in 0..(POCOL_MEMORY_SIZE - 1) |-> 0]
    /\ pc = Zero64
    /\ stack = [i \in 0..(POCOL_STACK_SIZE - 1) |-> Zero64]
    /\ sp = 0
    /\ registers = [i \in 0..7 |-> Zero64]
    /\ halt = FALSE
    /\ syscall_ctx = FALSE
    /\ limit = 0
    /\ budget = 0
    /\ dispatched = 0
    /\ nsteps = 0
    /\ err = NoErr
    /\ result = NoErr
    /\ exit_status = NoErr
    /\ last = NoInst
    /\ oob = FALSE
    /\ stack_idx = -1
    /\ reg_acc = {}
    /\ stdout = <<>>

Next ==
    \/ \E f \in Files : Load(f)
    \/ \E n \in Budgets : Call(n)
    \/ Step
    \/ Return
    \/ MainReturn

Spec == Init /\ [][Next]_vars

\* posm assembling one source text
NextPosm ==
    \/ posm = "start" /\ \E src \in Sources, open_ok \in BOOLEAN : CompileOpen(src, open_ok)
    \/ CompileLabel
    \/ CompileIdent
    \/ CompileSkip
    \/ \E before \in OutputsBefore, rename_ok \in BOOLEAN : CompileFinish(before, rename_ok)

SpecPosm == Init /\ [][NextPosm]_vars

\* callers of the symbol table
NextSym == \E data \in SymInputs : SymPush(data)

SpecSym == Init /\ [][NextSym]_vars

\* the lexer on its own
NextLex ==
    \/ posm = "start" /\ \E src \in LexSources : LexOpen(src)
    \/ LexNext
    \/ \E n \in 0..MaxPeek : LexPeek(n)

SpecLex == Init /\ [][NextLex]_vars

\* objects of one or two instructions with a register operand byte b, for
\* every byte b
RegFiles ==
    UNION { { GoodFile(<<INST_PUSH, DESC_PACK(OPR_REG, OPR_NONE), b,
                         INST_POP, DESC_PACK(OPR_REG, OPR_NONE), b>>, Zero64),
              GoodFile(<<INST_PRINT, DESC_PACK(OPR_REG, OPR_NONE), b>>, Zero64),
              GoodFile(<<INST_ADD, DESC_PACK(OPR_REG, OPR_REG), b, 255 - b>>, Zero64) } :
            b \in Byte }

\* the interpreter on these objects
NextReg ==
    \/ mode = "start" /\ \E f \in RegFiles : Load(f)
    \/ \E n \in Budgets : Call(n)
    \/ Step
    \/ Return
    \/ MainReturn

SpecReg == Init /\ [][NextReg]_vars

\* immediates whose sums carry across bytes and wrap around 2^64
ArithImms ==
    { Ones64, U64(1), <<0, 0, 0, 0, 0, 0, 0, 128>>, <<255, 255, 255, 255, 0, 0, 0, 0>> }

\* objects that add and that push and pop in a loop (a jmp with no operand
\* goes back to 0): add of an immediate, add of a register that sys has set,
\* add with no second operand, two pushes followed by two pops, push of an
\* immediate followed by a pop
ArithFiles ==
    {GoodFile(<<INST_ADD, DESC_PACK(OPR_REG, OPR_IMM), b>> \o x
                  \o <<INST_JMP, DESC_PACK(OPR_NONE, OPR_NONE)>>, Zero64) :
        b \in {1, 10}, x \in ArithImms}
    \cup {GoodFile(<<INST_SYS, 0, INST_ADD, DESC_PACK(OPR_REG, OPR_REG), d, 0,
                     INST_JMP, DESC_PACK(OPR_NONE, OPR_NONE)>>, Zero64) : d \in {0, 3}}
    \cup {GoodFile(<<INST_SYS, 0, INST_ADD, DESC_PACK(OPR_REG, OPR_NONE), 0,
                     INST_JMP, DESC_PACK(OPR_NONE, OPR_NONE)>>, Zero64)}
    \cup {GoodFile(<<INST_SYS, 0, INST_PUSH, OPR_REG, 0, INST_PUSH, OPR_REG, 1,
                     INST_POP, OPR_REG, 2, INST_POP, OPR_REG, 3>>, Zero64)}
    \cup {GoodFile(<<INST_PUSH, OPR_IMM>> \o x \o <<INST_POP, OPR_REG, 4>>, Zero64) :
            x \in ArithImms}

\* the interpreter on these objects
NextArith ==
    \/ mode = "start" /\ \E f \in ArithFiles : Load(f)
    \/ \E n \in Budgets : Call(n)
    \/ Step
    \/ Return
    \/ MainReturn

SpecArith == Init /\ [][NextArith]_vars

\* files by size: empty, shorter than a header, code that fills the memory,
\* and code longer than the memory with a code_size field that tells the
\* truth or that says 2
LongCode(n) == <<INST_PUSH, OPR_REG, 0>> \o [i \in 1..(n - 3) |-> 1 + (i % 7)]
SizedFiles ==
    { <<>>, POCOL_MAGIC }
    \cup {GoodFile(LongCode(POCOL_MEMORY_SIZE + n), Zero64) :
            n \in {0, 1, 9, 8 + 8 * POCOL_STACK_SIZE}}
    \cup {HeaderBytes(POCOL_MAGIC, POCOL_VERSION, Zero64, U64(2))
              \o LongCode(POCOL_MEMORY_SIZE + n) :
            n \in {0, 1, 9, 8 + 8 * POCOL_STACK_SIZE}}
    \cup {GoodFile(<<INST_PUSH, OPR_REG, 0, INST_JMP, 0>>, Zero64)}

\* the loader on these files, and the interpreter on what it loaded
NextLoad ==
    \/ mode = "start" /\ \E f \in SizedFiles : Load(f)
    \/ \E n \in Budgets : Call(n)
    \/ Step
    \/ Return
    \/ MainReturn

SpecLoad == Init /\ [][NextLoad]_vars

\* the codecs on their own
NextCodec ==
    \/ \E a \in OperandKinds, b \in OperandKinds : Pack(a, b)
    \/ \E v \in Words : Write64(v)
    \/ \E v \in Words : Emit64(v)
    \/ \E a \in 0..(POCOL_MEMORY_SIZE - 8) : Place(a)
    \/ Fetch

SpecCodec == Init /\ [][NextCodec]_vars


(********************************* claims **********************************)
\* a transition that is one call of pocol_execute_inst
IsDispatch == nsteps' = nsteps + 1

\* the opcode byte a dispatch starting in this state decodes
OpAtPc == IF PcOutOfMemory(pc) THEN -1 ELSE memory[Num(pc)]

\* bytes an operand slot of kind t takes in the encoding
OperandBytes(t) == IF t = OPR_REG THEN 1 ELSE IF t = OPR_IMM THEN 8 ELSE 0

\* encoded byte length of an instruction with descriptor desc
EncodedLength(desc) ==
    2 + OperandBytes(DESC_GET_OP1(desc)) + OperandBytes(DESC_GET_OP2(desc))

\* C1: once halt is set it stays set, no instruction is dispatched by any
\* later call, and pc, sp, registers, stack and memory keep their values.
C1_HaltedIsFinal ==
    [][halt => (halt' /\ nsteps' = nsteps
                /\ UNCHANGED <<pc, sp, registers, stack, memory>>)]_vars

\* a later call with a non-zero budget returned without dispatching
C1_Witness ==
    /\ halt /\ mode = "idle" /\ result = ERR_OK
    /\ budget # 0 /\ dispatched = 0 /\ nsteps > 0

\* the budget accounting of a call with budget N >= 0: at most N dispatches,
\* dispatched + limit = N while the loop runs, a return of ok with fewer
\* than N only when halted, and no dispatch at all when N = 0
C2_BudgetState ==
    (mode \in {"running", "idle", "exited"} /\ budget >= 0) =>
        /\ dispatched <= budget
        /\ (mode = "running") => (dispatched + limit = budget)
        /\ (mode = "idle" /\ result = ERR_OK) => (dispatched = budget \/ halt)
        /\ (dispatched < budget /\ mode = "idle" /\ result # NoErr) =>
               (halt \/ result # ERR_OK)
        /\ (budget = 0) => (dispatched = 0)

\* C2: a call with budget N >= 0 dispatches exactly min(N, k) instructions
\* (C2_BudgetState in every state), and with N = 0 no transition of the call
\* changes memory, pc, stack, sp, registers or halt.
C2_ExactBudget ==
    /\ []C2_BudgetState
    /\ [][(mode \in {"idle", "running"} /\ budget' = 0) => UNCHANGED vmvars]_vars

\* a call with budget 2 returned ok after exactly 2 dispatches, not halted
C2_Witness ==
    /\ mode = "idle" /\ result = ERR_OK /\ budget = MaxBudget
    /\ dispatched = MaxBudget /\ ~halt

\* C3: a push dispatched with sp = STACK_SIZE returns stack-overflow and
\* leaves pc, sp, registers, stack, memory and halt as they were.
C3_PushOverflowKeepsState ==
    [][(IsDispatch /\ OpAtPc = INST_PUSH /\ sp = POCOL_STACK_SIZE) =>
          (err' = ERR_STACK_OVERFLOW
           /\ UNCHANGED <<pc, sp, registers, stack, memory, halt>>)]_vars

\* C4: a pop dispatched with sp = 0 returns stack-underflow and leaves pc,
\* sp, registers, stack, memory and halt as they were.
C4_PopUnderflowKeepsState ==
    [][(IsDispatch /\ OpAtPc = INST_POP /\ sp = 0) =>
          (err' = ERR_STACK_UNDERFLOW
           /\ UNCHANGED <<pc, sp, registers, stack, memory, halt>>)]_vars

WellFormed(op, desc) ==
    LET l1 == OperandBytes(DESC_GET_OP1(desc))
        l2 == OperandBytes(DESC_GET_OP2(desc))
    IN  CASE op \in {INST_HALT, INST_SYS} -> l1 = 0 /\ l2 = 0
          [] op \in {INST_PUSH, INST_PRINT} -> l2 = 0
          [] op = INST_POP -> l1 = 1 /\ l2 = 0
          [] op = INST_ADD -> l1 = 1
          [] OTHER -> FALSE

\* the value of the slot-1 operand of the last instruction, read in bounds
JmpOperand ==
    LET q == Num(last.pc) + 2
        t == DESC_GET_OP1(last.desc)
    IN  IF t = OPR_IMM THEN [i \in 1..8 |-> memory[q + i - 1]]
        ELSE IF t = OPR_REG THEN registers[REG_OP(memory[q])]
        ELSE Zero64

C7_SpDelta ==
    (err = ERR_OK /\ last.op # -1) =>
        /\ (last.op = INST_PUSH) => (sp = last.sp + 1)
        /\ (last.op = INST_POP) => (sp = last.sp - 1)
        /\ (last.op \in {INST_HALT, INST_ADD, INST_JMP, INST_PRINT}) => (sp = last.sp)

\* a pop returned ok
C7_Witness == err = ERR_OK /\ last.op = INST_POP /\ sp = last.sp - 1

\* C8: no step reads vm->memory at an index >= MEMORY_SIZE (the step
\* returns illegal-memory-access instead of reading).
C8_NoReadPastMemory == ~oob

\* C9 as stated: every opcode byte 6..255 yields illegal-instruction and the
\* step changes no register, stack slot, sp or memory byte.
C9_IllegalFrom6 ==
    [][(IsDispatch /\ OpAtPc \in INST_SYS..255) =>
          (err' = ERR_ILLEGAL_INST /\ UNCHANGED <<registers, stack, sp, memory>>)]_vars

\* C9 amended: every opcode byte 7..255 yields illegal-instruction and the
\* step changes no register, stack slot, sp or memory byte; opcode byte 6
\* (sys) returns ok.
C9_IllegalFrom7 ==
    [][/\ (IsDispatch /\ OpAtPc \in COUNT_INST..255) =>
            (err' = ERR_ILLEGAL_INST /\ UNCHANGED <<registers, stack, sp, memory>>)
       /\ (IsDispatch /\ OpAtPc = INST_SYS) => (err' = ERR_OK)]_vars

\* opcode byte 255 was dispatched and refused
C9_Witness == err = ERR_ILLEGAL_INST /\ last.op = 255

\* C10: when a step fails, pocol_execute_program has returned that error to
\* its caller, whichever of the four errors it is.
C10_FirstErrorReturned ==
    (err \notin {ERR_OK, NoErr}) => (mode = "idle" /\ result = err)

\* the VM is as the loader left it: loaded, nothing dispatched yet
JustLoaded == mode = "idle" /\ nsteps = 0

\* C11: after a successful load of a file of file_size bytes, memory[i] is
\* byte i of the file for every i < file_size (header at 0..23, then the code)
\* and every memory byte from file_size on is zero
C11_WholeFileInMemory ==
    JustLoaded =>
        \A i \in 0..(POCOL_MEMORY_SIZE - 1) :
            memory[i] = IF i < Len(file) THEN file[i + 1] ELSE 0

BadMagicOrVersion ==
    /\ Len(file) >= HEADER_SIZE
    /\ header_magic(file) # POCOL_MAGIC \/ header_version(file) # U32(POCOL_VERSION)

\* C13: loading an object with a wrong magic or version returns a load error
\* and no instruction of the object is ever executed
C13_BadHeaderReturnsError ==
    BadMagicOrVersion => mode = "loadfail" /\ nsteps = 0

(* claims about posm *)
\* the whole source text has been read
AtEndOfText == posm = "compiling" /\ lookahead.type = TOK_EOF

\* pocol_compile_file is over, by a return or by the death of the process
Ended == posm \in {"returned", "crashed"}

Reported(msg) == \E k \in 1..Len(stderr) : stderr[k].msg = msg

\* index in the symbol table of the label of this name, 0 if there is none
LabelOf(name) == pocol_symfind(symbols, SYM_LABEL, name)

StartName == <<"_", "s", "t", "a", "r", "t">>

\* C14: a label used as an operand before the line that defines it assembles
\* without a diagnostic and is emitted as an 8-byte imm equal to the label's
\* address; only an identifier defined nowhere in the source is reported as
\* not defined
C14_ForwardReference ==
    AtEndOfText =>
        /\ \A k \in 1..Len(stderr) :
              stderr[k].msg = "indentifier not defined" => LabelOf(stderr[k].arg) = 0
        /\ \A k \in 1..Len(refs) :
              LabelOf(refs[k].name) # 0 =>
                  /\ refs[k].type = OPR_IMM
                  /\ SubBytes(out, refs[k].at + 1, 8) = symbols[LabelOf(refs[k].name)].pc

\* C15: if at least one diagnostic was reported, pocol_compile_file returns
\* failure, the temporary output is unlinked and the output path is neither
\* created nor replaced
C15_DiagnosticsFail ==
    (Ended /\ error_count > 0) =>
        /\ posm = "returned"
        /\ compile_ret = -1
        /\ ~tempfile
        /\ outfile = outprev

\* something else than the missing _start (and the closing total) was reported
OtherDiagnostics ==
    \E k \in 1..Len(stderr) :
        stderr[k].msg \notin {"undefined reference to _start", "Compilation failed."}

\* C16: a source that defines no _start label is reported with `undefined
\* reference to _start` and the assembly fails with no output file
C16_StartRequired ==
    (posm = "returned" /\ source # <<>> /\ LabelOf(StartName) = 0 /\ ~OtherDiagnostics) =>
        /\ Reported("undefined reference to _start")
        /\ compile_ret = -1
        /\ outfile = outprev

\* C17: on successful assembly the object starts with a header holding the
\* magic, the version, entry_point = the address recorded for _start and
\* code_size = the number of code bytes after the header, and the loader
\* accepts the object
C17_HeaderOfObject ==
    (posm = "returned" /\ compile_ret = 0 /\ LabelOf(StartName) # 0) =>
        /\ Len(outfile) >= HEADER_SIZE
        /\ header_magic(outfile) = POCOL_MAGIC
        /\ header_version(outfile) = U32(POCOL_VERSION)
        /\ header_entry_point(outfile) = symbols[LabelOf(StartName)].pc
        /\ header_code_size(outfile) = U64(Len(outfile) - HEADER_SIZE)
        /\ ~LoadRejects(outfile)

\* line of the character at an offset of the text
LineOf(src, offset) == 1 + Cardinality({k \in 1..offset : src[k] = "\n"})

\* an assembly with a duplicate label does not succeed and leaves the output
\* path as it was
C18_Fails ==
    Reported("duplicate label") =>
        /\ compile_ret # 0
        /\ Ended => outfile = outprev

\* the step on a label that is already in the table reports it first, on the
\* line of this definition, and leaves the table as it was
C18_Step ==
    (posm = "compiling" /\ lookahead.type = TOK_LABEL /\ LabelOf(LookaheadName) # 0) =>
        /\ Len(stderr') > Len(stderr)
        /\ stderr'[Len(stderr) + 1].msg = "duplicate label"
        /\ stderr'[Len(stderr) + 1].arg = LookaheadName
        /\ stderr'[Len(stderr) + 1].line = LineOf(source, lookahead.start)
        /\ error_count' > error_count
        /\ symbols' = symbols

Holds(sym, kind, name) == \E i \in 1..Len(sym) : sym[i].kind = kind /\ sym[i].name = name

C19_Unique ==
    \A i, j \in 1..Len(symbols) :
        (symbols[i].kind = symbols[j].kind /\ symbols[i].name = symbols[j].name) => i = j

\* a push of data the table holds returns -1 and changes nothing; any other
\* push appends the data, which pocol_symfind then returns
C19_Push ==
    sym_calls' = sym_calls + 1 =>
        IF Holds(symbols, sym_arg'.kind, sym_arg'.name)
        THEN sym_ret' = -1 /\ symbols' = symbols
        ELSE /\ sym_ret' = 0
             /\ symbols' = Append(symbols, sym_arg')
             /\ pocol_symfind(symbols', sym_arg'.kind, sym_arg'.name) = Len(symbols')

Mnemonic ==
    [op \in INST_HALT..INST_PRINT |->
        CASE op = INST_HALT -> [name |-> <<"h", "a", "l", "t">>, operand |-> 0]
          [] op = INST_PUSH -> [name |-> <<"p", "u", "s", "h">>, operand |-> 1]
          [] op = INST_POP -> [name |-> <<"p", "o", "p">>, operand |-> 1]
          [] op = INST_ADD -> [name |-> <<"a", "d", "d">>, operand |-> 2]
          [] op = INST_JMP -> [name |-> <<"j", "m", "p">>, operand |-> 1]
          [] op = INST_PRINT -> [name |-> <<"p", "r", "i", "n", "t">>, operand |-> 1]]

\* C20: the instruction table has an entry for every opcode of the ISA, with
\* the mnemonics halt, push, pop, add, jmp, print and the operand counts 0, 1,
\* 1, 2, 1, 1, so that each mnemonic is accepted and emitted as its opcode
\* byte 0..5
C20_MnemonicsAssemble ==
    [][\A op \in INST_HALT..INST_PRINT :
          (posm = "compiling" /\ lookahead.type = TOK_IDENT
             /\ LookaheadName = Mnemonic[op].name) =>
              /\ inst_table[op].operand = Mnemonic[op].operand
              /\ posm' = "compiling"
              /\ Len(out') >= Len(out) + 2
              /\ out'[Len(out) + 1] = op]_vars

\* C21: the syntax is free-form: the step on a label definition writes no
\* byte and leaves the parser at the token that follows the label, also when
\* that token is on the label's line, so that an instruction there is
\* assembled next as it is on a line of its own
C21_SameLineInstruction ==
    [][(posm = "compiling" /\ lookahead.type = TOK_LABEL /\ LabelOf(LookaheadName) = 0) =>
          /\ out' = out
          /\ lookahead' = next(Ctx).tok]_vars

\* C22: a run is a function of the program bytes and the step budget: from
\* any state, every outcome the dispatched instruction can have leaves the
\* same pc, sp, registers, stack, memory and halted, writes the same stdout
\* bytes and returns the same result as the one taken
C22_Deterministic ==
    [][IsDispatch =>
          LET a == IF PcOutOfMemory(pc) THEN 0 ELSE Num(pc)
          IN  \A ub1 \in UB(a + 1), ub2 \in UB(a + 2), ub3 \in UB(a + 3), sc \in SysChoice :
                LET o == pocol_execute_inst(ub1, ub2, ub3, sc)
                IN  /\ o.pc = pc' /\ o.sp = sp' /\ o.registers = registers'
                    /\ o.stack = stack' /\ o.memory = memory' /\ o.halt = halt'
                    /\ stdout \o o.out = stdout'
                    /\ o.err = err']_vars

\* the load failed: main returned without a call of pocol_execute_program
LoadFailed == result = NoErr

\* C23: the exit status of the interpreter is 0 only when the program ran to
\* a halt with no error; it is nonzero when the load failed and when a step
\* returned an error
C23_ExitStatus ==
    /\ (mode = "returned" /\ exit_status = ERR_OK) => (~LoadFailed /\ result = ERR_OK /\ halt)
    /\ (mode = "returned" /\ (LoadFailed \/ result # ERR_OK)) => exit_status # ERR_OK
    /\ (mode = "exited") => exit_status # ERR_OK

(* claims about the codecs *)
\* C24: DESC_GET_OP1(DESC_PACK(a, b)) = a and DESC_GET_OP2(DESC_PACK(a, b)) = b
\* for every pair (a, b) of operand kinds in {none, reg, imm}, and the result
\* of DESC_PACK fits in one byte
C24_PackUnpack ==
    codec = "packed" =>
        /\ packing.get1 = packing.op1
        /\ packing.get2 = packing.op2
        /\ packing.wide \in Byte

\* reg and imm were packed as 0x21 and unpacked
C24_Witness ==
    /\ codec = "packed" /\ packing.op1 = OPR_REG /\ packing.op2 = OPR_IMM
    /\ packing.desc = 33 /\ packing.get2 = OPR_IMM

\* C25: for every 64-bit value v, the 8 bytes the assembler's 64-bit emitter
\* writes, placed in memory and fetched by pocol_fetch64, decode to v
C25_RoundTrip == codec = "fetched" => Value64(fetched64) = v64

\* 0x0102_8000_0000_FFFF went through the emitter and the fetch
C25_Witness ==
    /\ codec = "fetched" /\ v64 = <<258, 32768, 0, 65535>>
    /\ fetched64 = <<255, 255, 0, 0, 0, 128, 2, 1>>

(* claims about the assembler and the interpreter together *)
\* C26: the address recorded for a label is the offset, in the memory image
\* the loader makes of the emitted object, of the first instruction assembled
\* after the label: the object loads, and the bytes written from the label
\* on are found in memory from that address on
C26_LabelAddress ==
    (posm = "returned" /\ compile_ret = 0) =>
        \A k \in 1..Len(symbols) :
            LET a == Num(symbols[k].pc)
            IN  a < Len(outfile) =>
                  /\ ~LoadRejects(outfile)
                  /\ \A i \in a..(Len(outfile) - 1) :
                        i < POCOL_MEMORY_SIZE => LoadedMemory(outfile)[i] = outfile[i + 1]

\* the lookahead is a mnemonic of the instruction table
AtMnemonic ==
    /\ posm = "compiling"
    /\ lookahead.type = TOK_IDENT
    /\ \E i \in 0..(COUNT_INST - 1) :
          inst_table[i].name # NullName /\ inst_table[i].name = LookaheadName

\* C27: for every instruction the assembler emits, the operand bytes written
\* after the opcode and the descriptor are 1 for a reg slot, 8 for an imm slot
\* and 0 for a none slot of the descriptor, so that decoding by descriptor
\* ends on the opcode of the next instruction
C27_OperandBytes ==
    [][(AtMnemonic /\ posm' = "compiling") =>
          /\ Len(out') >= Len(out) + 2
          /\ Len(out') = Len(out) + EncodedLength(out'[Len(out) + 2])]_vars

(* claims about the interpreter, continued *)
\* the instruction at pc, decoded inside memory, fetches an 8-byte immediate
\* for its first operand at pc + 2
FetchesImm ==
    /\ ~PcOutOfMemory(pc)
    /\ Num(pc) + 1 < POCOL_MEMORY_SIZE
    /\ memory[Num(pc)] \in {INST_PUSH, INST_JMP, INST_PRINT}
    /\ DESC_GET_OP1(memory[Num(pc) + 1]) = OPR_IMM
    /\ (memory[Num(pc)] = INST_PUSH) => ~PushOverflows(sp)

\* C28: the fetch of an 8-byte immediate at address q succeeds exactly when
\* q + 8 <= MEMORY_SIZE, the last 8 bytes of memory included, and fails with
\* illegal-memory-access otherwise
C28_FetchBound ==
    [][(IsDispatch /\ FetchesImm) =>
          IF Num(pc) + 2 + 8 <= POCOL_MEMORY_SIZE
          THEN err' = ERR_OK /\ mode' # "exited"
          ELSE err' = ERR_ILLEGAL_INST_ACCESS]_vars

\* a jmp that is not ended by the exit of pocol_fetch64 returns ok and leaves
\* pc at the value of its operand, whatever that value is
C29_Jmp ==
    (IsDispatch /\ OpAtPc = INST_JMP /\ mode' # "exited") =>
        /\ err' = ERR_OK
        /\ IF DESC_GET_OP1(last'.desc) = OPR_REG /\ Num(pc) + 2 >= POCOL_MEMORY_SIZE
           THEN \E r \in 0..7 : pc' = registers[r]
           ELSE pc' = JmpOperand'
        /\ UNCHANGED <<registers, stack, sp, halt, memory>>

\* a step entered with pc >= MEMORY_SIZE returns illegal-memory-access, reads
\* no byte past the memory and changes nothing
C29_Next ==
    (IsDispatch /\ PcOutOfMemory(pc)) =>
        /\ err' = ERR_ILLEGAL_INST_ACCESS
        /\ oob' = oob
        /\ UNCHANGED <<pc, registers, stack, sp, halt, memory>>

\* C29: jmp with any 64-bit target returns ok and sets pc to exactly that
\* target without a bounds check; when the target is >= MEMORY_SIZE the next
\* step returns illegal-memory-access without reading memory and without
\* changing registers, stack, sp or halted
C29_JmpUnchecked == [][C29_Jmp /\ C29_Next]_vars

\* a jmp to 2^64 - 1 returned ok and the next step was refused
C29_Witness ==
    /\ pc = Ones64 /\ header_entry_point(file) = Zero64
    /\ mode = "idle" /\ result = ERR_ILLEGAL_INST_ACCESS /\ dispatched >= 2

\* the bytes of the instruction at pc, all inside memory
OperandByte(k) == memory[Num(pc) + 1 + k]
WithOperands(n) == ~PcOutOfMemory(pc) /\ Num(pc) + 1 + n < POCOL_MEMORY_SIZE

\* no register slot outside r0..r7 is read or written
C30_InRange == reg_acc \subseteq 0..7

\* a step that reads operand byte b as a register index accesses r(b mod 8):
\* push and print read it, pop writes the popped value to it, add adds to it
C30_Index ==
    IsDispatch =>
        /\ (WithOperands(1) /\ OpAtPc \in {INST_PUSH, INST_PRINT}
              /\ DESC_GET_OP1(OperandByte(0)) = OPR_REG
              /\ (OpAtPc = INST_PUSH => ~PushOverflows(sp))) =>
               /\ reg_acc' = {OperandByte(1) % 8}
               /\ OpAtPc = INST_PUSH => stack'[sp] = registers[OperandByte(1) % 8]
               /\ OpAtPc = INST_PRINT =>
                      stdout' = Append(stdout, registers[OperandByte(1) % 8])
        /\ (WithOperands(1) /\ OpAtPc = INST_POP /\ ~PopUnderflows(sp)) =>
               /\ reg_acc' = {OperandByte(1) % 8}
               /\ registers' = [registers EXCEPT ![OperandByte(1) % 8] = stack[sp - 1]]
        /\ (WithOperands(2) /\ OpAtPc = INST_ADD
              /\ DESC_GET_OP2(OperandByte(0)) = OPR_REG) =>
               /\ reg_acc' = {OperandByte(1) % 8, OperandByte(2) % 8}
               /\ registers' =
                    [registers EXCEPT ![OperandByte(1) % 8] =
                        Add64(registers[OperandByte(1) % 8], registers[OperandByte(2) % 8])]

\* C30: for every operand byte b in 0..255 read as a register index by push,
\* pop, add or print, the register accessed is r(b mod 8); no step reads or
\* writes a register slot outside r0..r7
C30_RegisterMask == []C30_InRange /\ [][C30_Index]_vars

\* add with the operand bytes 253 and 2 has accessed r5 and r2
C30_Witness ==
    /\ last.op = INST_ADD /\ err = ERR_OK /\ reg_acc = {5, 2}
    /\ memory[2] = 253

(* claims about arithmetic and the stack *)
\* a + b modulo 2^64 on the 16-bit limbs of the two values, most significant
\* limb first
Sum64(a, b) ==
    LET s4 == a[4] + b[4]
        s3 == a[3] + b[3] + s4 \div 65536
        s2 == a[2] + b[2] + s3 \div 65536
        s1 == a[1] + b[1] + s2 \div 65536
    IN  <<s1 % 65536, s2 % 65536, s3 % 65536, s4 % 65536>>

\* the second operand of the add at pc by the op2 kind of its descriptor
AddSrc ==
    LET t == DESC_GET_OP2(OperandByte(0))
    IN  IF t = OPR_REG THEN registers[OperandByte(2) % 8]
        ELSE IF t = OPR_IMM THEN [i \in 1..8 |-> memory[Num(pc) + 2 + i]]
        ELSE Zero64

\* an add whose bytes lie inside the memory
AddInMemory ==
    /\ OpAtPc = INST_ADD
    /\ WithOperands(1)
    /\ WithOperands(1 + OperandBytes(DESC_GET_OP2(OperandByte(0))))

\* C31: add sets the destination register to (dest + src) mod 2^64, src being
\* the source register's value or the 8-byte immediate by the op2 kind, and
\* changes no other register, no stack slot and not sp
C31_Add ==
    [][(IsDispatch /\ AddInMemory /\ mode' # "exited") =>
          /\ Value64(registers'[OperandByte(1) % 8]) =
                 Sum64(Value64(registers[OperandByte(1) % 8]), Value64(AddSrc))
          /\ \A r \in 0..7 : r # OperandByte(1) % 8 => registers'[r] = registers[r]
          /\ UNCHANGED <<stack, sp>>]_vars

\* the immediate 2^64 - 1 was added to r1 twice: the sum wrapped to 2^64 - 2
C31_Witness ==
    /\ last.op = INST_ADD /\ err = ERR_OK
    /\ memory[1] = DESC_PACK(OPR_REG, OPR_IMM) /\ memory[2] = 1 /\ memory[3] = 255
    /\ registers[1] = <<254, 255, 255, 255, 255, 255, 255, 255>>
    /\ \A r \in 0..7 : r # 1 => registers[r] = Zero64
    /\ sp = 0

\* the value the push at pc stores, by the op1 kind of its descriptor
PushValue ==
    LET t == DESC_GET_OP1(OperandByte(0))
    IN  IF t = OPR_REG THEN registers[OperandByte(1) % 8]
        ELSE IF t = OPR_IMM THEN [i \in 1..8 |-> memory[Num(pc) + 1 + i]]
        ELSE Zero64

\* a push that finds room, with its bytes inside the memory
PushInMemory ==
    /\ OpAtPc = INST_PUSH
    /\ ~PushOverflows(sp)
    /\ WithOperands(0)
    /\ WithOperands(OperandBytes(DESC_GET_OP1(OperandByte(0))))

\* push writes its value to stack[sp] and to no other slot, then sp + 1
C32_Push ==
    (IsDispatch /\ PushInMemory /\ mode' # "exited") =>
        /\ stack' = [stack EXCEPT ![sp] = PushValue]
        /\ sp' = sp + 1
        /\ registers' = registers

\* pop writes stack[sp - 1], the slot of the latest push not yet popped, to
\* its register and to no stack slot, then sp - 1
C32_Pop ==
    (IsDispatch /\ OpAtPc = INST_POP /\ WithOperands(1) /\ ~PopUnderflows(sp)) =>
        /\ registers' = [registers EXCEPT ![OperandByte(1) % 8] = stack[sp - 1]]
        /\ sp' = sp - 1
        /\ stack' = stack

\* no other instruction and no other operation of a run touches the stack
C32_Rest ==
    /\ (IsDispatch /\ OpAtPc # INST_PUSH) => stack' = stack
    /\ (IsDispatch /\ OpAtPc \notin {INST_PUSH, INST_POP}) => sp' = sp
    /\ (mode # "start" /\ ~IsDispatch) => UNCHANGED <<stack, sp>>

Accepted == mode \in {"idle", "running"}

\* C33: the loader rejects every file that does not fit (size above
\* MEMORY_SIZE) and every empty file, so that an accepted load has written no
\* byte beyond memory[MEMORY_SIZE - 1], whatever the header's code_size says
C33_NoOverrun == Accepted => (Len(file) # 0 /\ Overrun(file) = <<>>)

(* claims about the lexer *)
\* the letter/underscore run the last next() scanned, when it was not a label
LexedRun == Text(source, lexed.tok.start, cursor - lexed.tok.start)

\* `r` followed by one or more digits
IsRegisterName(txt) ==
    /\ Len(txt) >= 2
    /\ txt[1] = "r"
    /\ \A k \in 2..Len(txt) : isdigit(txt[k])

\* the number the digits txt[2..k] spell
RECURSIVE DecimalSuffix(_, _)
DecimalSuffix(txt, k) ==
    IF k < 2 THEN 0 ELSE 10 * DecimalSuffix(txt, k - 1) + DigitVal(txt[k])

\* C34: a letter/underscore run not followed by `:` is a register only when
\* it is `r` followed by one or more digits, its value being the decimal
\* suffix; every other such run (`ret`, `r`) is an identifier
C34_RegisterOrIdent ==
    (lexed.call = "next" /\ lexed.tok.type \in {TOK_REGISTER, TOK_IDENT}) =>
        IF IsRegisterName(LexedRun)
        THEN /\ lexed.tok.type = TOK_REGISTER
             /\ lexed.tok.value = U64(DecimalSuffix(LexedRun, Len(LexedRun)))
        ELSE lexed.tok.type = TOK_IDENT

\* C35: peek(n) leaves cursor, line and column exactly as they were before
\* the call, for every n >= 0 and every cursor position; between peeks the
\* cursor never moves backward
C35_PeekRestores ==
    [][/\ (posm = "lexing" /\ lexed'.call = "peek") => UNCHANGED <<cursor, line, col>>
       /\ (posm = "lexing") => cursor' >= cursor]_vars

\* peek(0) from the end of the first token has scanned to a token on line 2
C35_Witness ==
    /\ lexed.call = "peek" /\ lexed.n = 0
    /\ cursor > 0 /\ line = 1 /\ col = cursor + 1
    /\ lexed.tok.type = TOK_IDENT
    /\ \E k \in cursor..(lexed.tok.start - 1) : CharAt(source, k) = "\n"

(* claims about the assembler, continued *)
\* the lookahead is an identifier in instruction position that is no mnemonic
AtUnknownIdent ==
    /\ posm = "compiling"
    /\ lookahead.type = TOK_IDENT
    /\ ~AtMnemonic

\* C36: every identifier in instruction position that matches no mnemonic
\* produces an unknown-mnemonic diagnostic and emits no bytes into the object
C36_UnknownMnemonic ==
    [][(AtUnknownIdent /\ posm' # "crashed") =>
          /\ out' = out
          /\ Len(stderr') > Len(stderr)
          /\ stderr'[Len(stderr) + 1].msg = "unknown instruction in program"
          /\ stderr'[Len(stderr) + 1].arg = LookaheadName]_vars

\* the bytes the step appends to the object
Appended == SubBytes(out', Len(out) + 1, Len(out') - Len(out))

\* C37: every register operand byte the assembler emits is in 0..7: a
\* register token whose index is above 7 is never emitted as a register
\* operand without a diagnostic
C37_RegisterByte ==
    [][(AtMnemonic /\ posm' = "compiling" /\ Len(out') >= Len(out) + 3
          /\ DESC_GET_OP1(Appended[2]) = OPR_REG /\ error_count' = error_count) =>
          /\ Appended[3] \in 0..7
          /\ (DESC_GET_OP2(Appended[2]) = OPR_REG /\ Len(Appended) >= 4) =>
                 Appended[4] \in 0..7]_vars

(* claims about the lexer, continued *)
\* the call of next() this step makes has reported an out-of-range integer
OutOfRangeReported ==
    /\ posm = "lexing"
    /\ lexed'.call = "next"
    /\ lexed'.tok.type = TOK_INT
    /\ Len(stderr') = Len(stderr) + 1
    /\ stderr'[Len(stderr')].msg = "Integrer out of range"

\* C38: after an `integer out of range` diagnostic the lexer skips at most
\* the remainder of the offending line: no character of a following line is
\* consumed without being tokenized
C38_SkipsOneLine ==
    [][OutOfRangeReported =>
          \A k \in lexed'.tok.start..(cursor' - 1) : CharAt(source, k) # "\n"]_vars

\* C39: peek(n) leaves the assembler's error count unchanged: a lexical error
\* in the region scanned by peek is reported and counted once over the whole
\* assembly, not once per scan
C39_PeekCountsNothing ==
    [][(posm = "lexing" /\ lexed'.call = "peek") =>
          (error_count' = error_count /\ stderr' = stderr)]_vars

\* what one more call of next() would return from here
Following == next(Ctx)

\* C40: the token loop terminates on every finite NUL-terminated source:
\* every call of next() at a non-end position advances the cursor by at least
\* one character (also after an illegal character or any other diagnostic),
\* the cursor never passes the terminating NUL, and once end-of-input is
\* reached every further next() returns the end-of-input token
C40_NextAdvances ==
    posm = "lexing" =>
        /\ cursor <= Len(source)
        /\ Cur(Ctx) # NUL => Following.cx.cursor > cursor
        /\ Cur(Ctx) = NUL =>
               (Following.tok.type = TOK_EOF /\ Following.cx.cursor = cursor)
        /\ Following.tok.type = TOK_EOF => next(Following.cx).tok.type = TOK_EOF

\* a text with an illegal character has been scanned to its end by calls of
\* next(): the last one returned end-of-input with the cursor on the NUL
C40_Witness ==
    /\ lexed.call = "next" /\ lexed.tok.type = TOK_EOF
    /\ cursor = Len(source) /\ Len(source) > 1
    /\ error_count = 1 /\ stderr[1].msg = "Illegal character in program"

====
